---------------------------- MODULE Spec2Model ----------------------------
(***************************************************************************)
(* Model of the pallet-loading engine of Recursive-Partitioning-Algorithm: *)
(* pack (main.cpp) -> solve_BD / initialize / BD / solve (bd.cpp), the     *)
(* integer-set utilities (sets.cpp), the five-block reconstruction         *)
(* (draw_bd.cpp) and the serialiser MakeJsonString (draw.cpp).             *)
(*                                                                         *)
(* C arrays are 0-based; a Set {size, points} is the record                *)
(* [size, points] whose points is a TLA+ sequence, read with At(s, i).     *)
(***************************************************************************)
EXTENDS Integers, Sequences, FiniteSets, TLC

VARIABLES
  inL, inW, inl, inw,   \* the arguments of pack
  pc,                   \* position of the single thread inside pack
  L, W, l, w,           \* pack's locals L, W and the globals l, w
  swap,                 \* pack's local swap
  N,                    \* bd.cpp: maximum level of recursion
  normalSetX, normalize, indexX, indexY,
  lowerBound, upperBound, solutionDepth, reachedLimit, cutPoints,
  wild,                 \* an index array or table was read outside what was written
  bd,                   \* locals of the outermost activation of BD
  BD_solution,          \* pack's local BD_solution
  ptoRet,               \* rows written by the reconstruction, in order
  result,               \* the placements MakeJsonString put in the string
  returned,             \* what pack returned: "none" yet, "NULL" or "c_str"
  pointee,              \* what the memory behind the returned pointer holds
  previous,             \* the count a caller kept from its previous call of
                        \* pack, -1 before any
  memory_type,          \* main.cpp:107: type of the structure of the L-solver
  numRasterX, numRasterY,   \* main.cpp:113
  nL,                   \* allocateMemory's local nL
  solution, divisionPoint,  \* main.cpp:96,101: the dense arrays, as pointers
  solutionMap, divisionPointMap,   \* main.cpp:95,100: the arrays of maps
  attempts,             \* the sizes asked for so far, each with its outcome
  q,                    \* the L-piece (q0, q1, q2, q3) handed to normalizePiece
  i_k,                  \* divideB6's i_k[0..2]
  point,                \* the word storeDivisionPoint stored
  div,                  \* draw.cpp: div[0..2] read back from the word
  Bk,                   \* divideL's parameter B: the subdivision, 1..9
  q1, q2,               \* the L-pieces a subdivision stores through q1 and q2
  indexRasterX, indexRasterY,   \* main.cpp: the arrays makeIndices fills
  ret,                  \* draw.cpp:46: the number of rows drawR has written
  calls                 \* the calls of the L-solver's solve so far, each as
                        \* << the piece being solved, the piece passed >>

\* the state of the L-solver's units, which pack never touches
lVars == << numRasterX, numRasterY, nL, solution, divisionPoint, solutionMap,
            divisionPointMap, attempts, q, i_k, point, div, Bk, q1, q2,
            indexRasterX, indexRasterY, ret, calls >>

vars == << inL, inW, inl, inw, pc, L, W, l, w, swap, N, normalSetX, normalize,
           indexX, indexY, lowerBound, upperBound, solutionDepth,
           reachedLimit, cutPoints, wild, bd, BD_solution, ptoRet, result,
           returned, pointee, previous, memory_type, lVars >>

(* ---- bounds of the checked input space ---- *)
MaxDim == 12
MaxBox == 5
MaxPiece == 4      \* greatest side of an L-piece handed to normalizePiece
MaxRaster == 2     \* greatest small number of raster points per axis
MaxPallet == 8

(* ---- program constants ---- *)
INFINITY_ == 2000000000
HORIZONTAL == 0
VERTICAL == 1

(* ---- C integer arithmetic ---- *)
Abs(a) == IF a < 0 THEN 0 - a ELSE a

\* C's '/' truncates toward zero; b # 0
CDiv(a, b) ==
  LET quo == Abs(a) \div Abs(b)
  IN IF (a < 0) = (b < 0) THEN quo ELSE 0 - quo

\* C's '%': a - b * (a / b)
CMod(a, b) == a - b * CDiv(a, b)

Max2(a, b) == IF a < b THEN b ELSE a
Min2(a, b) == IF b < a THEN b ELSE a

At(s, i) == s.points[i + 1]

(* ---- sets.cpp ---- *)

\* newSet: size 0, no element written yet
newSet == [size |-> 0, points |-> << >>]

\* insert (element, set): appended only when greater than the last element;
\* the caller stores the returned size, which the sequence length carries here
insert(element, set) ==
  IF set.size = 0 \/ At(set, set.size - 1) < element
  THEN [size |-> set.size + 1, points |-> Append(set.points, element)]
  ELSE set

\* variant: c[i] is never replaced
raisedNever(old, cand) == IF old < old THEN cand ELSE old

\* sets.cpp:199-202 and 207-210: c[i] is replaced when the candidate is greater
raised(old, cand) == IF old < cand THEN cand ELSE old

\* variant: L is never appended
closedWithout(pts, LL) == [size |-> Len(pts), points |-> pts]

\* sets.cpp:223-228: L is appended unless it is the last element
closedWith(pts, LL) ==
  IF pts[Len(pts)] # LL
  THEN [size |-> Len(pts) + 1, points |-> Append(pts, LL)]
  ELSE [size |-> Len(pts), points |-> pts]

\* constructConicCombinations: the two passes over c[0..L] (c1 after the
\* pass with l, c2 after the pass with w), then the scan of i = 1, ..., L in
\* this order that inserts every i with c[i] = i after the element 0
constructConicCombinations(LL, ll, ww) ==
  LET c1[i \in 0..LL] == IF i < ll THEN 0 ELSE raised(0, c1[i - ll] + ll)
      c2[i \in 0..LL] == IF i < ww THEN c1[i]
                         ELSE raised(c1[i], c2[i - ww] + ww)
  IN closedWith(<< 0 >> \o SelectSeq([i \in 1..LL |-> i],
                                      LAMBDA i : c2[i] = i), LL)

\* number of leading elements of cc kept by the two trimming loops
\* (sets.cpp:140-147): trailing elements greater than D are dropped
trimSize(cc, D) ==
  LET RECURSIVE down(_)
      down(n) == IF n - 1 >= 0 /\ At(cc, n - 1) > D THEN down(n - 1) ELSE n
  IN down(cc.size)

\* one of the two loops of constructRasterPoints (sets.cpp:153-157): i runs
\* from size-1 down to 0 and norm[D - cc[i]] is inserted
rasterLoop(D, cc, norm) ==
  LET RECURSIVE loop(_)
      loop(st) ==
        IF st.i < 0 THEN st.set
        ELSE loop([i |-> st.i - 1,
                   set |-> insert(norm[D - At(cc, st.i)], st.set)])
  IN loop([i |-> trimSize(cc, D) - 1, set |-> newSet])

\* constructRasterPoints (L, W, &rasterX, &rasterY, conicCombinations)
constructRasterPoints(LL, WW, cc, norm) ==
  [rasterX |-> rasterLoop(LL, cc, norm), rasterY |-> rasterLoop(WW, cc, norm)]

(* ---- bd.cpp: bounds ---- *)

\* variant: the two grids are added instead of the larger being taken
lowerBoundOfSum(LL, WW, ll, ww) ==
  CDiv(LL, ll) * CDiv(WW, ww) + CDiv(LL, ww) * CDiv(WW, ll)

\* variant: the smaller of the two grids is taken
lowerBoundOfMin(LL, WW, ll, ww) ==
  Min2(CDiv(LL, ll) * CDiv(WW, ww), CDiv(LL, ww) * CDiv(WW, ll))

\* variant: only the packing with l along L is counted
lowerBoundOfUnrotated(LL, WW, ll, ww) == CDiv(LL, ll) * CDiv(WW, ww)

\* the macro lowerBound(L, W, l, w) of bd.cpp:57
lowerBoundOf(LL, WW, ll, ww) ==
  Max2(CDiv(LL, ll) * CDiv(WW, ww), CDiv(LL, ww) * CDiv(WW, ll))


\* variant: one more box area is always counted as wasted
barnesBoundWasteful(LL, WW, ll, ww) ==
  LET minWaste == CMod(LL * WW, ll * ww)
      A == Min2(CMod(LL, ll) * CMod(WW, ll), (ll - CMod(LL, ll)) * (ll - CMod(WW, ll)))
      B == Min2(CMod(LL, ww) * CMod(WW, ww), (ww - CMod(LL, ww)) * (ww - CMod(WW, ww)))
      maxAB == Max2(A, B)
      D == (CDiv(maxAB, ll * ww) + 1) * (ll * ww) + minWaste
  IN CDiv(LL * WW - D, ll * ww)

barnesBound(LL, WW, ll, ww) ==
  LET minWaste == CMod(LL * WW, ll * ww)
      A == Min2(CMod(LL, ll) * CMod(WW, ll), (ll - CMod(LL, ll)) * (ll - CMod(WW, ll)))
      B == Min2(CMod(LL, ww) * CMod(WW, ww), (ww - CMod(LL, ww)) * (ww - CMod(WW, ww)))
      maxAB == Max2(A, B)
      D == IF minWaste >= CMod(maxAB, ll * ww)
           THEN CDiv(maxAB, ll * ww) * (ll * ww) + minWaste
           ELSE (CDiv(maxAB, ll * ww) + 1) * (ll * ww) + minWaste
  IN CDiv(LL * WW - D, ll * ww)


(* ---- bd.cpp: initialize ---- *)

\* the C array arr[0..LL] as a function
asArray(arr, LL) == [j \in 0..LL |-> arr[j + 1]]

\* bd.cpp:658-665: normalize[j] = normalSetX.points[i - 1], i moving forward
\* past every point <= j and never reset
normalizeTable(LL, X) ==
  LET RECURSIVE adv(_, _)
      adv(i, j) == IF i < X.size /\ At(X, i) <= j THEN adv(i + 1, j) ELSE i
      \* the body of the loop for the j of st, i being where the inner loop
      \* stops, and j++
      body(st, i) ==
        [j |-> st.j + 1, i |-> i, arr |-> Append(st.arr, At(X, i - 1))]
      \* the loop continued from st for as long as j <= b
      RECURSIVE fill(_, _)
      fill(st, b) ==
        IF st.j > b THEN st
        ELSE IF st.j = b THEN body(st, adv(st.i, st.j))
        ELSE fill(fill(st, (st.j + b) \div 2), b)
  IN asArray(fill([j |-> 0, i |-> 0, arr |-> << >>], LL).arr, LL)

\* bd.cpp:708-714: L_n is appended when the last point is smaller, then the
\* closing element L_n + 1
closedRaster(r, L_n) ==
  IF Len(r) > 0 /\ r[Len(r)] < L_n
  THEN [size |-> Len(r) + 2, points |-> Append(Append(r, L_n), L_n + 1)]
  ELSE [size |-> Len(r) + 1, points |-> Append(r, L_n + 1)]

\* bd.cpp:674-714: merge of the two raster sets up to (L_n, W_n), the rest of
\* rasterX, L_n when it is missing, and the closing element L_n + 1
mergedRasterSet(rasterX, rasterY, L_n, W_n) ==
  LET RECURSIVE merge(_)
      merge(st) ==
        IF st.i < rasterX.size /\ At(rasterX, st.i) <= L_n
           /\ st.j < rasterY.size /\ At(rasterY, st.j) <= W_n
        THEN IF At(rasterX, st.i) = At(rasterY, st.j)
             THEN merge([i |-> st.i + 1, j |-> st.j + 1,
                         pts |-> Append(st.pts, At(rasterX, st.i))])
             ELSE IF At(rasterX, st.i) < At(rasterY, st.j)
                  THEN merge([i |-> st.i + 1, j |-> st.j,
                              pts |-> Append(st.pts, At(rasterX, st.i))])
                  ELSE merge([i |-> st.i, j |-> st.j + 1,
                              pts |-> Append(st.pts, At(rasterY, st.j))])
        ELSE st
      RECURSIVE rest(_)
      rest(st) ==
        IF st.i < rasterX.size /\ At(rasterX, st.i) <= L_n
        THEN rest([i |-> st.i + 1, j |-> st.j,
                   pts |-> IF At(rasterX, st.i) > st.pts[Len(st.pts)]
                           THEN Append(st.pts, At(rasterX, st.i))
                           ELSE st.pts])
        ELSE st.pts
  IN closedRaster(rest(merge([i |-> 0, j |-> 0, pts |-> << >>])), L_n)


\* variant: the point W_n itself gets no entry of indexY
ySizeOfShort(set, W_n) ==
  LET RECURSIVE cnt(_)
      cnt(i) == IF i < set.size /\ At(set, i) < W_n THEN cnt(i + 1) ELSE i
  IN cnt(0)

\* bd.cpp:727-736: number of leading points <= W_n (the loop breaks at the
\* first greater one)
ySizeOf(set, W_n) ==
  LET RECURSIVE cnt(_)
      cnt(i) == IF i < set.size /\ ~(At(set, i) > W_n) THEN cnt(i + 1) ELSE i
  IN cnt(0)

\* bd.cpp:719-769: the index arrays and the matrices over the merged set S.
\* indexX and indexY are written only at the points of S, so they are
\* functions on those values alone; cutPoints[i][j] has only its field
\* homogeneous written.
tablesOver(S, norm, ySize, ll, ww, Ncap) ==
  [normalSetX |-> S,
   normalize |-> norm,
   indexX |-> [v \in {At(S, i) : i \in 0..(S.size - 1)} |->
                 CHOOSE i \in 0..(S.size - 1) : At(S, i) = v],
   indexY |-> [v \in {At(S, i) : i \in 0..(ySize - 1)} |->
                 CHOOSE i \in 0..(ySize - 1) : At(S, i) = v],
   solutionDepth |-> [i \in 0..(S.size - 1) |-> [j \in 0..(ySize - 1) |-> Ncap]],
   reachedLimit |-> [i \in 0..(S.size - 1) |-> [j \in 0..(ySize - 1) |-> 1]],
   upperBound |-> [i \in 0..(S.size - 1) |-> [j \in 0..(ySize - 1) |->
                     barnesBound(At(S, i), At(S, j), ll, ww)]],
   lowerBound |-> [i \in 0..(S.size - 1) |-> [j \in 0..(ySize - 1) |->
                     lowerBoundOf(At(S, i), At(S, j), ll, ww)]],
   cutPoints |-> [i \in 0..(S.size - 1) |-> [j \in 0..(ySize - 1) |->
                    [homogeneous |-> 1]]]]

\* bd.cpp:667-717: L_n = normalize[L], W_n = normalize[W], the raster sets of
\* (L, W) and their merge
mergedFor(LL, WW, rp, norm) ==
  mergedRasterSet(rp.rasterX, rp.rasterY, norm[LL], norm[WW])

initializeOver(LL, WW, ll, ww, Ncap, norm, S) ==
  tablesOver(S, norm, ySizeOf(S, norm[WW]), ll, ww, Ncap)

initializeWith(LL, WW, ll, ww, Ncap, X, norm) ==
  initializeOver(LL, WW, ll, ww, Ncap, norm,
                 mergedFor(LL, WW, constructRasterPoints(LL, WW, X, norm), norm))

initializeFrom(LL, WW, ll, ww, Ncap, X) ==
  initializeWith(LL, WW, ll, ww, Ncap, X, normalizeTable(LL, X))

\* initialize (L, W, l, w): every global it builds (Ncap is the value of N)
initialize(LL, WW, ll, ww, Ncap) ==
  initializeFrom(LL, WW, ll, ww, Ncap, constructConicCombinations(LL, ll, ww))

(* ---- bd.cpp: the tables a call of BD/solve reads and writes ---- *)

\* the mutable tables, gathered so that solve and BD can hand them on
Tables ==
  [lowerBound |-> lowerBound, solutionDepth |-> solutionDepth,
   reachedLimit |-> reachedLimit, cutPoints |-> cutPoints, wild |-> wild]

\* v is an entry of indexX (resp. indexY) that initialize wrote
hasX(v) == v \in DOMAIN indexX
hasY(v) == v \in DOMAIN indexY

localUpperBound(T, iX, iY) ==
  IF T.solutionDepth[iX][iY] = -1
  THEN T.lowerBound[iX][iY]
  ELSE upperBound[iX][iY]


\* variant: x1 is stored in the place of x2
storeCutPointFirstTwice(T, Lp, Wp, x1, x2, y1, y2) ==
  [T EXCEPT !.cutPoints[indexX[Lp]][indexY[Wp]] =
     [x1 |-> x1, x2 |-> x1, y1 |-> y1, y2 |-> y2, homogeneous |-> 0]]

storeCutPoint(T, Lp, Wp, x1, x2, y1, y2) ==
  [T EXCEPT !.cutPoints[indexX[Lp]][indexY[Wp]] =
     [x1 |-> x1, x2 |-> x2, y1 |-> y1, y2 |-> y2, homogeneous |-> 0]]


\* variant: reachedLimit is left as it is when the rectangle is marked solved
markOptimalLimitKept(T, Lp, Wp) ==
  [T EXCEPT !.solutionDepth[indexX[Lp]][indexY[Wp]] = -1]

\* bd.cpp:283-288 and 318-323: the rectangle is marked solved
markOptimal(T, Lp, Wp) ==
  [T EXCEPT !.solutionDepth[indexX[Lp]][indexY[Wp]] = -1,
            !.reachedLimit[indexX[Lp]][indexY[Wp]] = 0]

\* bd.cpp:172-188: each block normalized and ordered L_i >= W_i
blockL(L_, W_, i) ==
  IF normalize[L_[i]] < normalize[W_[i]]
  THEN normalize[W_[i]] ELSE normalize[L_[i]]

blockW(L_, W_, i) ==
  IF normalize[L_[i]] < normalize[W_[i]]
  THEN normalize[L_[i]] ELSE normalize[W_[i]]

\* every read of normalize, indexX and indexY that solve makes for this
\* candidate is of an element that was written
blocksIndexed(Lp, Wp, numBlocks, L_, W_) ==
  /\ hasX(Lp) /\ hasY(Wp)
  /\ \A i \in 1..numBlocks :
        /\ L_[i] \in DOMAIN normalize
        /\ W_[i] \in DOMAIN normalize
        /\ hasX(blockL(L_, W_, i))
        /\ hasY(blockW(L_, W_, i))

RECURSIVE BD(_, _, _, _)

\* bd.cpp:306-309: the sum of the current lower bounds of the blocks
sumLowerBound(T, numBlocks, L_, W_) ==
  LET RECURSIVE sum(_)
      sum(i) ==
        IF i > numBlocks THEN 0
        ELSE T.lowerBound[indexX[blockL(L_, W_, i)]][indexY[blockW(L_, W_, i)]]
             + sum(i + 1)
  IN sum(1)

\* bd.cpp:279-290 and 314-325: S_lb replaces *z_lb when it is greater, the
\* cut is stored, and the rectangle is solved when S_lb meets z_ub
improve(T, S_lb, Lp, Wp, z_ub, x1, x2, y1, y2) ==
  IF S_lb = z_ub
  THEN [T |-> markOptimal(storeCutPoint(T, Lp, Wp, x1, x2, y1, y2), Lp, Wp),
        z_lb |-> S_lb, solved |-> 1]
  ELSE [T |-> storeCutPoint(T, Lp, Wp, x1, x2, y1, y2),
        z_lb |-> S_lb, solved |-> 0]

limitOutcome(T, S_lb, Lp, Wp, z_lb, z_ub, x1, x2, y1, y2) ==
  IF S_lb > z_lb
  THEN improve(T, S_lb, Lp, Wp, z_ub, x1, x2, y1, y2)
  ELSE [T |-> T, z_lb |-> z_lb, solved |-> 0]

\* bd.cpp:298-326: at the depth cap each block counts with its current
\* lower bound
solveAtLimit(T, Lp, Wp, numBlocks, L_, W_, z_lb, z_ub, x1, x2, y1, y2) ==
  limitOutcome([T EXCEPT !.reachedLimit[indexX[Lp]][indexY[Wp]] = 1],
               sumLowerBound(T, numBlocks, L_, W_),
               Lp, Wp, z_lb, z_ub, x1, x2, y1, y2)

\* bd.cpp:190-293: below the depth cap each block whose solutionDepth exceeds
\* n is solved by BD at depth n + 1
solveBelowLimit(T, Lp, Wp, n, numBlocks, L_, W_, z_lb, z_ub, x1, x2, y1, y2) ==
  LET iX(i) == indexX[blockL(L_, W_, i)]
      iY(i) == indexY[blockW(L_, W_, i)]
      \* bd.cpp:204-212: the bounds of the blocks before any of them is solved
      zi_lb(i) == T.lowerBound[iX(i)][iY(i)]
      zi_ub(i) == localUpperBound(T, iX(i), iY(i))
      RECURSIVE total_lb(_)
      total_lb(i) == IF i > numBlocks THEN 0 ELSE zi_lb(i) + total_lb(i + 1)
      RECURSIVE total_ub(_)
      total_ub(i) == IF i > numBlocks THEN 0 ELSE zi_ub(i) + total_ub(i + 1)
      \* bd.cpp:236-257: block i solved again by BD (r is what BD left), or
      \* taken as it is
      solvedBlock(Tk, i, r) ==
        [T |-> [r.T EXCEPT !.lowerBound[iX(i)][iY(i)] = r.ret,
                           !.solutionDepth[iX(i)][iY(i)] =
                              IF r.T.reachedLimit[iX(i)][iY(i)] = 0
                              THEN -1 ELSE n],
         z |-> r.ret]
      blockValue(Tk, i) ==
        IF Tk.solutionDepth[iX(i)][iY(i)] > n
        THEN solvedBlock(Tk, i, BD(Tk, blockL(L_, W_, i), blockW(L_, W_, i),
                                   n + 1))
        ELSE [T |-> Tk, z |-> Tk.lowerBound[iX(i)][iY(i)]]
      \* bd.cpp:260-263
      limitSeen(Tk, i) ==
        IF Tk.reachedLimit[iX(i)][iY(i)] = 1
        THEN [Tk EXCEPT !.reachedLimit[indexX[Lp]][indexY[Wp]] = 1]
        ELSE Tk
      \* one pass of the loop of bd.cpp:220-291 over block st.i
      RECURSIVE blocks(_)
      decide(st, Tb, S_lb, S_ub) ==
        IF st.z_lb >= S_ub
        THEN [T |-> Tb, z_lb |-> st.z_lb, solved |-> 0]
        ELSE IF S_lb > st.z_lb
             THEN IF S_lb = z_ub
                  THEN improve(Tb, S_lb, Lp, Wp, z_ub, x1, x2, y1, y2)
                  ELSE blocks([i |-> st.i + 1,
                               T |-> storeCutPoint(Tb, Lp, Wp, x1, x2, y1, y2),
                               z_lb |-> S_lb, S_lb |-> S_lb, S_ub |-> S_ub])
             ELSE blocks([i |-> st.i + 1, T |-> Tb, z_lb |-> st.z_lb,
                          S_lb |-> S_lb, S_ub |-> S_ub])
      withValue(st, v) ==
        decide(st, limitSeen(v.T, st.i),
               st.S_lb - zi_lb(st.i) + v.z, st.S_ub - zi_ub(st.i) + v.z)
      blocks(st) ==
        IF st.i > numBlocks
        THEN [T |-> st.T, z_lb |-> st.z_lb, solved |-> 0]
        ELSE withValue(st, blockValue(st.T, st.i))
      start(S_lb, S_ub) ==
        IF z_lb < S_ub
        THEN blocks([i |-> 1, T |-> T, z_lb |-> z_lb,
                     S_lb |-> S_lb, S_ub |-> S_ub])
        ELSE [T |-> T, z_lb |-> z_lb, solved |-> 0]
  IN start(total_lb(1), total_ub(1))

\* solve (L, W, l, w, n, numBlocks, L_, W_, &z_lb, z_ub, x1, x2, y1, y2):
\* the tables after the call, the new *z_lb and the value returned.  A read
\* of an index entry that was never written makes every later table access
\* arbitrary: the call is then recorded as wild and changes nothing else.
solve(T, Lp, Wp, n, numBlocks, L_, W_, z_lb, z_ub, x1, x2, y1, y2) ==
  IF ~blocksIndexed(Lp, Wp, numBlocks, L_, W_)
  THEN [T |-> [T EXCEPT !.wild = TRUE], z_lb |-> z_lb, solved |-> 0]
  ELSE IF n < N
       THEN solveBelowLimit(T, Lp, Wp, n, numBlocks, L_, W_, z_lb, z_ub,
                            x1, x2, y1, y2)
       ELSE solveAtLimit(T, Lp, Wp, numBlocks, L_, W_, z_lb, z_ub,
                         x1, x2, y1, y2)

(* ---- bd.cpp: BD, one candidate cut at a time ---- *)

\* The locals of one activation of BD: the rectangle (L, W), the depth n,
\* z_lb and z_ub, the raster sets, the loop it is in (at: "ng", "vert",
\* "horiz", or "ret" once it has returned z_lb) and the loop indices.
\* T holds the tables as the activation has left them so far.

\* loop conditions of bd.cpp:431-454
x1ok(F, i1) ==
  i1 < F.rasterX.size /\ At(F.rasterX, i1) <= CDiv(F.L, 2)
x2ok(F, i1, i2) ==
  i2 < F.rasterX.size /\ At(F.rasterX, i2) + At(F.rasterX, i1) <= F.L
y1ok(F, j1) ==
  j1 < F.rasterY.size /\ At(F.rasterY, j1) < F.W
y2ok(F, j2) ==
  j2 < F.rasterY.size /\ At(F.rasterY, j2) < F.W
\* bd.cpp:461-462
symmetryBreak(F, i1, i2, j1, j2) ==
  /\ At(F.rasterX, i1) + At(F.rasterX, i2) = F.L
  /\ At(F.rasterY, j1) + At(F.rasterY, j2) > F.W
\* bd.cpp:513-514 and 556-557
vertOk(F, i1) ==
  i1 < F.rasterX.size /\ At(F.rasterX, i1) <= CDiv(F.L, 2)
horizOk(F, j1) ==
  j1 < F.rasterY.size /\ At(F.rasterY, j1) <= CDiv(F.W, 2)

idx(i1, i2, j1, j2) ==
  [index_x1 |-> i1, index_x2 |-> i2, index_y1 |-> j1, index_y2 |-> j2]

\* the horizontal loop entered or continued at index j1, or the return of
\* bd.cpp:582-584 when its condition fails
toHoriz(F, j1) ==
  IF horizOk(F, j1)
  THEN [F EXCEPT !.at = "horiz", !.ix = idx(0, 0, j1, j1)]
  ELSE [F EXCEPT !.at = "ret"]

\* the vertical loop at index i1, or on to the horizontal loop
toVert(F, i1) ==
  IF vertOk(F, i1)
  THEN [F EXCEPT !.at = "vert", !.ix = idx(i1, i1, 0, 0)]
  ELSE toHoriz(F, 1)

\* the four nested loops of bd.cpp:431-494 taken from the point where the
\* condition of the y2 loop is about to be tested with these indices, up to
\* the next execution of the body; on to the vertical loop when there is none
RECURSIVE toNonGuillotine(_, _)
toNonGuillotine(F, p) ==
  IF ~x1ok(F, p.index_x1)
  THEN toVert(F, 1)
  ELSE IF ~x2ok(F, p.index_x1, p.index_x2)
  THEN toNonGuillotine(F, idx(p.index_x1 + 1, p.index_x1 + 2, 1, 2))
  ELSE IF ~y1ok(F, p.index_y1)
  THEN toNonGuillotine(F, idx(p.index_x1, p.index_x2 + 1, 1, 2))
  ELSE IF \/ ~y2ok(F, p.index_y2)
          \/ symmetryBreak(F, p.index_x1, p.index_x2, p.index_y1, p.index_y2)
  THEN toNonGuillotine(F, idx(p.index_x1, p.index_x2,
                              p.index_y1 + 1, p.index_y1 + 2))
  ELSE [F EXCEPT !.at = "ng", !.ix = p]

\* variant: BD returns at once for every rectangle
provenAtEntryAlways(z_lb, z_ub) == z_lb = z_lb /\ z_ub = z_ub

\* variant: BD does not return at once when the lower bound is 0
provenAtEntryEqualOnly(z_lb, z_ub) == z_lb = z_ub

\* bd.cpp:363: no box fits into the rectangle, or its bounds are equal
provenAtEntry(z_lb, z_ub) == z_lb = 0 \/ z_lb = z_ub

\* the locals of an activation for the ordered rectangle (Lo, Wo) before any
\* table has been read
enteredFrame(T, Lo, Wo, n) ==
  [L |-> Lo, W |-> Wo, n |-> n, z_lb |-> 0, z_ub |-> 0,
   rasterX |-> newSet, rasterY |-> newSet,
   at |-> "ret", ix |-> idx(0, 0, 0, 0), T |-> T]

\* bd.cpp:387-431: the raster sets are built, reachedLimit is cleared and the
\* first loop starts with index_x1 = 1, index_x2 = 2, index_y1 = 1,
\* index_y2 = 2
startCuts(F, rp) ==
  toNonGuillotine(
    [F EXCEPT !.rasterX = rp.rasterX, !.rasterY = rp.rasterY,
              !.T.reachedLimit[indexX[F.L]][indexY[F.W]] = 0],
    idx(1, 2, 1, 2))

\* bd.cpp:360-391: the bounds are read and either BD returns z_lb at once or
\* the enumeration of the cuts starts
withBounds(F, z_lb, z_ub) ==
  IF provenAtEntry(z_lb, z_ub)
  THEN [F EXCEPT !.z_lb = z_lb, !.z_ub = z_ub,
                 !.T = markOptimal(F.T, F.L, F.W)]
  ELSE startCuts([F EXCEPT !.z_lb = z_lb, !.z_ub = z_ub],
                 constructRasterPoints(F.L, F.W, normalSetX, normalize))

orderedEntry(T, Lo, Wo, n) ==
  IF ~(hasX(Lo) /\ hasY(Wo))
  THEN [enteredFrame(T, Lo, Wo, n) EXCEPT !.T.wild = TRUE]
  ELSE withBounds(enteredFrame(T, Lo, Wo, n),
                  T.lowerBound[indexX[Lo]][indexY[Wo]],
                  localUpperBound(T, indexX[Lo], indexY[Wo]))

\* bd.cpp:347-391: entry of BD (L, W, l, w, n) with the tables T
BDenter(T, LL, WW, n) ==
  IF WW > LL THEN orderedEntry(T, WW, LL, n) ELSE orderedEntry(T, LL, WW, n)

\* the frame after solve has returned r for the candidate just tried: BD
\* returns when solve returned 1, and otherwise goes on with *z_lb and the
\* tables as solve left them
solvedOrOn(F, r) ==
  IF r.solved = 1
  THEN [F EXCEPT !.T = r.T, !.z_lb = r.z_lb, !.at = "ret"]
  ELSE [F EXCEPT !.T = r.T, !.z_lb = r.z_lb, !.at = "on"]

\* bd.cpp:464-490: the body of the innermost loop
tryNonGuillotine(F, x1, x2, y1, y2) ==
  solvedOrOn(F, solve(F.T, F.L, F.W, F.n, 5,
                      << x1, F.L - x1, x2 - x1, x2, F.L - x2 >>,
                      << F.W - y1, F.W - y2, y2 - y1, y1, y2 >>,
                      F.z_lb, F.z_ub, x1, x2, y1, y2))

\* the next y2 of the loops of bd.cpp:431-494
nextNonGuillotine(G, ix) ==
  IF G.at = "ret" THEN G
  ELSE toNonGuillotine(G, [ix EXCEPT !.index_y2 = @ + 1])

stepNonGuillotine(F) ==
  nextNonGuillotine(
    tryNonGuillotine(F, At(F.rasterX, F.ix.index_x1),
                     At(F.rasterX, F.ix.index_x2),
                     At(F.rasterY, F.ix.index_y1),
                     At(F.rasterY, F.ix.index_y2)),
    F.ix)

\* bd.cpp:516-536: one vertical guillotine cut
tryVertical(F, x1) ==
  solvedOrOn(F, solve(F.T, F.L, F.W, F.n, 2,
                      << x1, F.L - x1 >>, << F.W - 0, F.W - 0 >>,
                      F.z_lb, F.z_ub, x1, x1, 0, 0))

nextVertical(G, i1) == IF G.at = "ret" THEN G ELSE toVert(G, i1 + 1)

stepVertical(F) ==
  nextVertical(tryVertical(F, At(F.rasterX, F.ix.index_x1)), F.ix.index_x1)

\* bd.cpp:559-579: one horizontal guillotine cut
tryHorizontal(F, y1) ==
  solvedOrOn(F, solve(F.T, F.L, F.W, F.n, 2,
                      << F.L - 0, F.L - 0 >>, << F.W - y1, y1 >>,
                      F.z_lb, F.z_ub, 0, 0, y1, y1))

nextHorizontal(G, j1) == IF G.at = "ret" THEN G ELSE toHoriz(G, j1 + 1)

stepHorizontal(F) ==
  nextHorizontal(tryHorizontal(F, At(F.rasterY, F.ix.index_y1)), F.ix.index_y1)

BDstep(F) ==
  CASE F.at = "ng" -> stepNonGuillotine(F)
    [] F.at = "vert" -> stepVertical(F)
    [] F.at = "horiz" -> stepHorizontal(F)

\* the candidates tried one after the other from the frame F until BD
\* returns; steps(F, k) tries at most 2^k of them
BDloops(F) ==
  LET RECURSIVE steps(_, _)
      steps(G, k) ==
        IF G.at = "ret" THEN G
        ELSE IF k = 0 THEN BDstep(G)
        ELSE steps(steps(G, k - 1), k - 1)
      RECURSIVE run(_, _)
      run(G, k) == IF G.at = "ret" THEN G ELSE run(steps(G, k), k + 1)
  IN run(F, 0)

\* what a call of BD hands back: the tables it leaves and its result
handedBack(F) == [T |-> F.T, ret |-> F.z_lb]

\* BD (L, W, l, w, n) run to its return
BD(T, LL, WW, n) == handedBack(BDloops(BDenter(T, LL, WW, n)))

(* ---- draw_bd.cpp: reconstruction of the five-block solution ---- *)

\* D = [ptoRet, wild]: the rows written so far (boxesDrawn is their number)
\* and whether an unwritten index entry was read.  A row is
\* << ptoRet[k][0], ptoRet[k][1], ptoRet[k][2], ptoRet[k][3] >>.

\* variant: the orientation with the smaller grid is chosen
boxOrientationWorse(x, y) ==
  IF CDiv(x, l) * CDiv(y, w) < CDiv(x, w) * CDiv(y, l)
  THEN HORIZONTAL ELSE VERTICAL

boxOrientation(x, y) ==
  LET a == CDiv(x, l) * CDiv(y, w)
      b == CDiv(x, w) * CDiv(y, l)
  IN IF a > b THEN HORIZONTAL ELSE VERTICAL

\* the two nested loops of draw_bd.cpp:71-81 (bl = l, bw = w) and 86-96
\* (bl = w, bw = l)
gridLoop(D, x, y, dx, dy, bl, bw) ==
  LET RECURSIVE inner(_)
      inner(st) ==
        IF st.j + bw <= y
        THEN inner([i |-> st.i, j |-> st.j + bw,
                    rows |-> Append(st.rows, << st.i + dx, st.j + dy,
                                       st.i + bl + dx, st.j + bw + dy >>)])
        ELSE st.rows
      RECURSIVE outer(_)
      outer(st) ==
        IF st.i + bl <= x
        THEN outer([i |-> st.i + bl,
                    rows |-> inner([i |-> st.i, j |-> 0, rows |-> st.rows])])
        ELSE st.rows
  IN [D EXCEPT !.ptoRet = outer([i |-> 0, rows |-> D.ptoRet])]

\* variant: every grid is drawn at the origin
drawHomogeneousAtOrigin(D, x, y, dx, dy) ==
  IF boxOrientation(x, y) = HORIZONTAL
  THEN gridLoop(D, x, y, 0, 0, l, w)
  ELSE gridLoop(D, x, y, 0, 0, w, l)

drawHomogeneous(D, x, y, dx, dy) ==
  IF boxOrientation(x, y) = HORIZONTAL
  THEN gridLoop(D, x, y, dx, dy, l, w)
  ELSE gridLoop(D, x, y, dx, dy, w, l)

\* every element of normalize that getSubproblems reads was written
subproblemsIndexed(c, LL, WW) ==
  /\ (WW - c.y1) \in DOMAIN normalize /\ (LL - c.x1) \in DOMAIN normalize
  /\ (WW - c.y2) \in DOMAIN normalize /\ (c.x2 - c.x1) \in DOMAIN normalize
  /\ (c.y2 - c.y1) \in DOMAIN normalize /\ (LL - c.x2) \in DOMAIN normalize

\* getSubproblems: << L_, W_ >>
getSubproblems(c, LL, WW) ==
  [L_ |-> << c.x1, normalize[LL - c.x1], normalize[c.x2 - c.x1], c.x2,
             normalize[LL - c.x2] >>,
   W_ |-> << normalize[WW - c.y1], normalize[WW - c.y2],
             normalize[c.y2 - c.y1], c.y1, c.y2 >>]

\* draw_bd.cpp:149-150 and 197-198: the block is not empty and is not the
\* rectangle itself
drawable(a, b, LL, WW) ==
  a # 0 /\ b # 0 /\ ~((a = LL /\ b = WW) \/ (a = WW /\ b = LL))

RECURSIVE draw(_, _, _, _, _)

\* draw_bd.cpp:195-219: the five blocks of the stored cut, in this order
normalBlocks(D, LL, WW, dx, dy, L_, W_) ==
  LET child(Dk, i) ==
        IF ~drawable(L_[i], W_[i], LL, WW) THEN Dk
        ELSE CASE i = 1 -> draw(Dk, L_[1], W_[1], dx, dy + W_[4])
               [] i = 2 -> draw(Dk, L_[2], W_[2], dx + L_[1], dy + W_[5])
               [] i = 3 -> draw(Dk, L_[3], W_[3], dx + L_[1], dy + W_[4])
               [] i = 4 -> draw(Dk, L_[4], W_[4], dx, dy)
               [] i = 5 -> draw(Dk, L_[5], W_[5], dx + L_[4], dy)
  IN child(child(child(child(child(D, 1), 2), 3), 4), 5)

normalCut(D, LL, WW, dx, dy, c) ==
  IF c.homogeneous # 0
  THEN drawHomogeneous(D, LL, WW, dx, dy)
  ELSE IF ~subproblemsIndexed(c, LL, WW)
       THEN [D EXCEPT !.wild = TRUE]
       ELSE normalBlocks(D, LL, WW, dx, dy, getSubproblems(c, LL, WW).L_,
                         getSubproblems(c, LL, WW).W_)

drawNormal(D, LL, WW, dx, dy) ==
  IF ~(hasX(LL) /\ hasY(WW))
  THEN [D EXCEPT !.wild = TRUE]
  ELSE normalCut(D, LL, WW, dx, dy, cutPoints[indexX[LL]][indexY[WW]])

\* draw_bd.cpp:147-172: block i is drawn with its sides exchanged, W_[i] by
\* L_[i]; LL and WW are the sides after std::swap (L, W)
rotatedBlocks(D, LL, WW, dx, dy, L_, W_) ==
  LET child(Dk, i) ==
        IF ~drawable(W_[i], L_[i], LL, WW) THEN Dk
        ELSE CASE i = 1 -> draw(Dk, W_[1], L_[1], dx + W_[4], dy + L_[2])
               [] i = 2 -> draw(Dk, W_[2], L_[2], dx + W_[5], dy)
               [] i = 3 -> draw(Dk, W_[3], L_[3], dx + W_[4], dy + L_[5])
               [] i = 4 -> draw(Dk, W_[4], L_[4], dx, dy + L_[5])
               [] i = 5 -> draw(Dk, W_[5], L_[5], dx, dy)
  IN child(child(child(child(child(D, 1), 2), 3), 4), 5)

rotatedCut(D, LL, WW, dx, dy, c) ==
  IF c.homogeneous # 0
  THEN drawHomogeneous(D, WW, LL, dx, dy)
  ELSE IF ~subproblemsIndexed(c, LL, WW)
       THEN [D EXCEPT !.wild = TRUE]
       ELSE rotatedBlocks(D, LL, WW, dx, dy, getSubproblems(c, LL, WW).L_,
                          getSubproblems(c, LL, WW).W_)

\* std::swap (L, W): the record is looked up as (W, L)
drawRotation(D, LL, WW, dx, dy) ==
  IF ~(hasX(WW) /\ hasY(LL))
  THEN [D EXCEPT !.wild = TRUE]
  ELSE rotatedCut(D, WW, LL, dx, dy, cutPoints[indexX[WW]][indexY[LL]])

draw(D, LL, WW, dx, dy) ==
  IF D.wild THEN D
  ELSE IF LL >= WW THEN drawNormal(D, LL, WW, dx, dy)
       ELSE drawRotation(D, LL, WW, dx, dy)

\* drawBD (L, W, ret) with ret = 0 (draw.cpp:1550-1557)
drawBD(LL, WW) == draw([ptoRet |-> << >>, wild |-> wild], LL, WW, 0, 0)

(* ---- draw.cpp: MakeJsonString ---- *)

\* One placement of the string.  x and y are the numbers written after "x"
\* and "y", doubled: (xl - xh) / 2.0 + xh is a multiple of one half, which
\* float and std::to_string carry exactly, so twice the value is the integer
\* xl + xh.
\* variant: the extent along y is compared with w whether or not pack swapped
placementSwapIgnored(row, ll, ww, sw) ==
  LET sym == (0 = ll - ww)
      rotated == IF sym THEN FALSE ELSE ~(0 = row[4] - row[2] - ww)
      x == row[3] + row[1]
      y == row[4] + row[2]
  IN [x |-> IF sw THEN x ELSE y, y |-> IF sw THEN y ELSE x,
      rotated |-> rotated]

placement(row, ll, ww, sw) ==
  LET sym == (0 = ll - ww)
      cmp == IF sw THEN ll ELSE ww
      rotated == IF sym THEN FALSE ELSE ~(0 = row[4] - row[2] - cmp)
      x == row[3] + row[1]
      y == row[4] + row[2]
  IN [x |-> IF sw THEN x ELSE y, y |-> IF sw THEN y ELSE x,
      rotated |-> rotated]

\* MakeJsonString (Lo, Wo, L, q, n, l, w, swap): rows 0..n-1 of ptoRet
MakeJsonString(rows, n, ll, ww, sw) ==
  [i \in 1..n |-> placement(rows[i], ll, ww, sw)]

(* ---- main.cpp: pack, as the steps of its single thread ---- *)

\* the values normalize[L] and normalize[W] that solve_BD (bd.cpp:803-804) and
\* pack (main.cpp:1322-1323) both compute
L_n == normalize[L]
W_n == normalize[W]

\* the outermost activation of BD with the tables as they stand
frame == bd @@ [T |-> Tables]
locals(F) == [k \in DOMAIN F \ {"T"} |-> F[k]]

noFrame ==
  [L |-> 0, W |-> 0, n |-> 0, z_lb |-> 0, z_ub |-> 0, rasterX |-> newSet,
   rasterY |-> newSet, at |-> "none", ix |-> idx(0, 0, 0, 0)]

\* variant: the width of the pallet is not tested
invalidDimensionsNoWidth(LL, WW, ll, ww) == LL <= 0 \/ ll <= 0 \/ ww <= 0

\* variant: a box longer than both sides of the pallet is rejected too
invalidDimensionsOrTooLong(LL, WW, ll, ww) ==
  \/ LL <= 0 \/ WW <= 0 \/ ll <= 0 \/ ww <= 0
  \/ (ll > LL /\ ll > WW) \/ (ww > LL /\ ww > WW)

\* main.cpp:1307: the test that makes pack return NULL
invalidDimensions(LL, WW, ll, ww) == LL <= 0 \/ WW <= 0 \/ ll <= 0 \/ ww <= 0

\* state before pack is called with the arguments (a, b, c, d): no table exists
Start(a, b, c, d) ==
  /\ inL = a /\ inW = b /\ inl = c /\ inw = d
  /\ pc = "pack"
  /\ L = 0 /\ W = 0 /\ l = 0 /\ w = 0 /\ swap = FALSE /\ N = INFINITY_
  /\ normalSetX = newSet /\ normalize = << >>
  /\ indexX = << >> /\ indexY = << >>
  /\ lowerBound = << >> /\ upperBound = << >> /\ solutionDepth = << >>
  /\ reachedLimit = << >> /\ cutPoints = << >>
  /\ wild = FALSE /\ bd = noFrame /\ BD_solution = 0
  /\ ptoRet = << >> /\ result = << >> /\ returned = "none"
  /\ pointee = "none"
  /\ memory_type = 0
  /\ numRasterX = 0 /\ numRasterY = 0 /\ nL = 0
  /\ solution = "null" /\ divisionPoint = "null"
  /\ solutionMap = "null" /\ divisionPointMap = "null"
  /\ attempts = << >>
  /\ q = << 0, 0, 0, 0 >> /\ i_k = << 0, 0, 0 >>
  /\ point = [low |-> 0, high |-> 0] /\ div = << 0, 0, 0 >>
  /\ Bk = 0 /\ q1 = << 0, 0, 0, 0 >> /\ q2 = << 0, 0, 0, 0 >>
  /\ indexRasterX = << >> /\ indexRasterY = << >>
  /\ ret = 0 /\ calls = {}

Dims == {-1} \cup (0..MaxDim)
Boxes == {-1} \cup (0..MaxBox)

Init ==
  /\ \E a \in Dims, b \in Dims, c \in Boxes, d \in Boxes : Start(a, b, c, d)
  /\ previous = -1

tableVars == << normalSetX, normalize, indexX, indexY, lowerBound, upperBound,
                solutionDepth, reachedLimit, cutPoints >>
inputVars == << inL, inW, inl, inw >>

\* main.cpp:1293-1317: arguments copied, dimensions checked, L >= W arranged
pack_entry ==
  /\ pc = "pack"
  /\ l' = inl /\ w' = inw
  /\ IF invalidDimensions(inL, inW, inl, inw)
     THEN /\ L' = inL /\ W' = inW /\ swap' = FALSE
          /\ returned' = "NULL" /\ pc' = "done"
     ELSE /\ L' = (IF inL < inW THEN inW ELSE inL)
          /\ W' = (IF inL < inW THEN inL ELSE inW)
          /\ swap' = (inL < inW)
          /\ returned' = returned /\ pc' = "solve_BD"
  /\ memory_type' = (IF invalidDimensions(inL, inW, inl, inw)
                     THEN memory_type ELSE 5)
  /\ UNCHANGED << lVars, previous, inputVars, tableVars, N, wild, bd, BD_solution, ptoRet,
                  result, pointee >>

\* bd.cpp:788-792: N = N_max, unlimited when N_max <= 0
depthCap(N_max) == IF N_max <= 0 THEN INFINITY_ ELSE N_max

\* bd.cpp:783-804: solve_BD (L, W, l, w, 0) up to the call of BD
solve_BD_initialize ==
  /\ pc = "solve_BD"
  /\ \E g \in {initialize(IF W > L THEN W ELSE L, IF W > L THEN L ELSE W,
                          l, w, depthCap(0))} :
        /\ N' = depthCap(0)
        /\ normalSetX' = g.normalSetX /\ normalize' = g.normalize
        /\ indexX' = g.indexX /\ indexY' = g.indexY
        /\ lowerBound' = g.lowerBound /\ upperBound' = g.upperBound
        /\ solutionDepth' = g.solutionDepth
        /\ reachedLimit' = g.reachedLimit /\ cutPoints' = g.cutPoints
  /\ pc' = "BD"
  /\ UNCHANGED << lVars, previous, memory_type, inputVars, L, W, l, w, swap, wild, bd, BD_solution, ptoRet,
                  result, returned,
                  pointee >>

\* the frame F becomes the state of the outermost activation
setFrame(F) ==
  /\ bd' = locals(F)
  /\ lowerBound' = F.T.lowerBound /\ solutionDepth' = F.T.solutionDepth
  /\ reachedLimit' = F.T.reachedLimit /\ cutPoints' = F.T.cutPoints
  /\ wild' = F.T.wild
  /\ UNCHANGED << lVars, previous, memory_type, inputVars, L, W, l, w, swap, N, normalSetX, normalize,
                  indexX, indexY, upperBound, BD_solution, ptoRet, result,
                  returned, pointee >>

\* bd.cpp:806 and 347-391: BD (L_n, W_n, l, w, N) is entered
BD_entry ==
  /\ pc = "BD"
  /\ setFrame(BDenter(Tables, L_n, W_n, N))
  /\ pc' = "cuts"

\* bd.cpp:806 and 347-586: BD (L_n, W_n, l, w, N) from its entry to its
\* return, every cut it tries included
BD_call ==
  /\ pc = "BD"
  /\ setFrame(BDloops(BDenter(Tables, L_n, W_n, N)))
  /\ pc' = "cuts"

\* bd.cpp:431-494: one first order non-guillotine cut
BD_NonGuillotine ==
  /\ pc = "cuts" /\ bd.at = "ng"
  /\ setFrame(BDstep(frame))
  /\ pc' = pc

\* bd.cpp:513-537: one vertical guillotine cut
BD_Vertical ==
  /\ pc = "cuts" /\ bd.at = "vert"
  /\ setFrame(BDstep(frame))
  /\ pc' = pc

\* bd.cpp:556-580: one horizontal guillotine cut
BD_Horizontal ==
  /\ pc = "cuts" /\ bd.at = "horiz"
  /\ setFrame(BDstep(frame))
  /\ pc' = pc

\* bd.cpp:806-828: BD has returned; the result is stored and the two
\* matrices reachedLimit and solutionDepth are freed
solve_BD_return ==
  /\ pc = "cuts" /\ bd.at = "ret"
  /\ BD_solution' = bd.z_lb
  /\ IF hasX(L_n) /\ hasY(W_n)
     THEN /\ lowerBound' =
               [lowerBound EXCEPT ![indexX[L_n]][indexY[W_n]] = bd.z_lb]
          /\ wild' = wild
     ELSE /\ lowerBound' = lowerBound /\ wild' = TRUE
  /\ reachedLimit' = << >> /\ solutionDepth' = << >>
  /\ pc' = "draw"
  /\ UNCHANGED << lVars, previous, memory_type, inputVars, L, W, l, w, swap, N, normalSetX, normalize,
                  indexX, indexY, upperBound, cutPoints, bd, ptoRet, result,
                  returned, pointee >>

\* what a row of ptoRet that was allocated and never written can hold
Unwritten == { << 0, 0, 0, 0 >>, << -1, -1, -1, -1 >> }

\* the n rows that MakeJsonString reads: the rows written, then rows that
\* were never written
rowsRead(rows, n, junk) ==
  [i \in 1..n |-> IF i <= Len(rows) THEN rows[i] ELSE junk]

\* main.cpp:1322-1328 and draw.cpp:1529-1567: n = BD_solution rows are
\* allocated, drawBD (L_n, W_n, 0) fills rows and MakeJsonString reads rows
\* 0..n-1.  A row written past the n allocated ones is recorded as wild.
pack_draw ==
  /\ pc = "draw"
  /\ \E D \in {drawBD(L_n, W_n)}, junk \in Unwritten :
        /\ ptoRet' = D.ptoRet
        /\ wild' = (D.wild \/ Len(D.ptoRet) > BD_solution)
        /\ result' = MakeJsonString(rowsRead(D.ptoRet, BD_solution, junk),
                                    BD_solution, l, w, swap)
  /\ pc' = "return"
  /\ UNCHANGED << lVars, previous, memory_type, inputVars, L, W, l, w, swap, N, tableVars, bd, BD_solution,
                  returned, pointee >>

\* main.cpp:1330-1344: the tables are released and result.c_str () is
\* returned.  result is a local of pack, destroyed on return: the memory the
\* pointer leads to still holds the string, or has been overwritten.
pack_return ==
  /\ pc = "return"
  /\ lowerBound' = << >> /\ upperBound' = << >> /\ cutPoints' = << >>
  /\ indexX' = << >> /\ indexY' = << >> /\ normalize' = << >>
  /\ normalSetX' = newSet
  /\ returned' = "c_str"
  /\ pointee' \in {"result", "overwritten"}
  /\ pc' = "done"
  /\ UNCHANGED << lVars, previous, memory_type, inputVars, L, W, l, w, swap, N, solutionDepth, reachedLimit,
                  wild, bd, BD_solution, ptoRet, result >>

Next ==
  \/ pack_entry
  \/ solve_BD_initialize
  \/ BD_entry
  \/ BD_NonGuillotine
  \/ BD_Vertical
  \/ BD_Horizontal
  \/ solve_BD_return
  \/ pack_draw
  \/ pack_return

Spec == Init /\ [][Next]_vars

\* the end-to-end scenarios of the specification's table
Scenarios ==
  { << 30, 20, 7, 3 >>, << 57, 44, 12, 5 >>, << 86, 82, 15, 11 >>,
    << 100, 100, 10, 10 >>, << 13, 7, 5, 3 >>, << 1, 1, 2, 2 >> }

\* a scenario with the sides of the pallet, of the box, or of both exchanged
Reflections(s) ==
  { s, << s[2], s[1], s[3], s[4] >>, << s[1], s[2], s[4], s[3] >>,
    << s[2], s[1], s[4], s[3] >> }

InitScenario ==
  /\ \E s \in Scenarios :
        \E t \in Reflections(s) : Start(t[1], t[2], t[3], t[4])
  /\ previous = -1

\* pack with each call of BD taken as one step
NextCalls ==
  \/ pack_entry
  \/ solve_BD_initialize
  \/ BD_call
  \/ solve_BD_return
  \/ pack_draw
  \/ pack_return

SpecScenario == InitScenario /\ [][NextCalls]_vars

\* a caller that has the count of one call of pack calls it again with the
\* sides of the pallet or the sides of the box exchanged.  The globals and
\* the freed tables stay as the first call left them: the second call
\* overwrites each of them before it reads it.
pack_again ==
  /\ pc = "done" /\ returned = "c_str" /\ previous = -1
  /\ previous' = BD_solution
  /\ \E t \in { << inW, inL, inl, inw >>, << inL, inW, inw, inl >> } :
        inL' = t[1] /\ inW' = t[2] /\ inl' = t[3] /\ inw' = t[4]
  /\ pc' = "pack" /\ returned' = "none" /\ pointee' = "none"
  /\ UNCHANGED << lVars, memory_type, L, W, l, w, swap, N, tableVars, wild, bd,
                  BD_solution, ptoRet, result >>

InitPositive ==
  /\ \E a \in 1..MaxDim, b \in 1..MaxDim, c \in 1..MaxBox, d \in 1..MaxBox :
        Start(a, b, c, d)
  /\ previous = -1

NextSymmetry ==
  \/ pack_entry
  \/ solve_BD_initialize
  \/ BD_call
  \/ solve_BD_return
  \/ pack_draw
  \/ pack_return
  \/ pack_again

SpecSymmetry == InitPositive /\ [][NextSymmetry]_vars

(* ---- the units of the L-solver, each called on its own ---- *)

\* pack is not running: its arguments, locals, tables and results are as
\* before any call
packAtRest ==
  /\ inL = 0 /\ inW = 0 /\ inl = 0 /\ inw = 0
  /\ W = 0 /\ swap = FALSE /\ N = INFINITY_
  /\ normalize = << >> /\ indexX = << >> /\ indexY = << >>
  /\ lowerBound = << >> /\ upperBound = << >> /\ solutionDepth = << >>
  /\ reachedLimit = << >> /\ cutPoints = << >>
  /\ wild = FALSE /\ bd = noFrame /\ BD_solution = 0
  /\ ptoRet = << >> /\ result = << >> /\ returned = "none"
  /\ pointee = "none" /\ previous = -1

\* nothing has been allocated for the L-solver
memoryAtRest ==
  /\ memory_type = 0 /\ numRasterX = 0 /\ numRasterY = 0 /\ nL = 0
  /\ solution = "null" /\ divisionPoint = "null"
  /\ solutionMap = "null" /\ divisionPointMap = "null"
  /\ attempts = << >>
  /\ indexRasterX = << >> /\ indexRasterY = << >>

\* no division point has been stored or read
wordAtRest ==
  i_k = << 0, 0, 0 >> /\ point = [low |-> 0, high |-> 0] /\ div = << 0, 0, 0 >>

packVars == << inputVars, L, W, swap, N, tableVars, wild, bd, BD_solution,
               ptoRet, result, returned, pointee, previous >>
memoryVars == << memory_type, numRasterX, numRasterY, nL, solution,
                 divisionPoint, solutionMap, divisionPointMap, attempts,
                 indexRasterX, indexRasterY >>
wordVars == << i_k, point, div >>

\* no L-piece has been divided, solved or drawn
divideAtRest ==
  /\ Bk = 0 /\ q1 = << 0, 0, 0, 0 >> /\ q2 = << 0, 0, 0, 0 >>
  /\ ret = 0 /\ calls = {}
divideVars == << Bk, q1, q2, ret, calls >>

(* ---- sets.cpp: constructConicCombinations called on its own ---- *)

InitConic ==
  /\ packAtRest /\ memoryAtRest /\ wordAtRest /\ q = << 0, 0, 0, 0 >>
  /\ divideAtRest
  /\ L \in 0..MaxDim /\ l \in 1..MaxBox /\ w \in 1..MaxBox
  /\ normalSetX = newSet
  /\ pc = "constructConicCombinations"

\* bd.cpp:652-654: normalSetX = newSet (L + 2);
\* constructConicCombinations (L, l, w, &normalSetX)
constructConicCombinations_call ==
  /\ pc = "constructConicCombinations"
  /\ normalSetX' = constructConicCombinations(L, l, w)
  /\ pc' = "constructed"
  /\ UNCHANGED << inputVars, L, W, swap, N, normalize, indexX, indexY,
                  lowerBound, upperBound, solutionDepth, reachedLimit,
                  cutPoints, wild, bd, BD_solution, ptoRet, result, returned,
                  pointee, previous, memoryVars, wordVars, divideVars, l, w, q >>

NextConic == constructConicCombinations_call

SpecConic == InitConic /\ [][NextConic]_vars

(* ---- util.h, main.cpp, draw.cpp: the division point packed in a word ---- *)

\* A 32-bit word is kept as its bits 0-21 (low) and its bits 22-31 (high),
\* each a natural number.
LowBits == 22
HighBits == 10

RECURSIVE Pow2(_)
Pow2(n) == IF n = 0 THEN 1 ELSE 2 * Pow2(n - 1)

\* the word of an int 0 <= v < 2^22
wordOf(v) == [low |-> v, high |-> 0]

\* bitwise | and & of two natural numbers
RECURSIVE BitOr(_, _)
BitOr(a, b) ==
  IF a = 0 THEN b
  ELSE IF b = 0 THEN a
  ELSE (IF a % 2 = 1 \/ b % 2 = 1 THEN 1 ELSE 0) + 2 * BitOr(a \div 2, b \div 2)

RECURSIVE BitAnd(_, _)
BitAnd(a, b) ==
  IF a = 0 \/ b = 0 THEN 0
  ELSE (IF a % 2 = 1 /\ b % 2 = 1 THEN 1 ELSE 0) + 2 * BitAnd(a \div 2, b \div 2)

wordOr(a, b) == [low |-> BitOr(a.low, b.low), high |-> BitOr(a.high, b.high)]
wordAnd(a, b) == [low |-> BitAnd(a.low, b.low), high |-> BitAnd(a.high, b.high)]

\* util.h:55-57 and 63-64.  ptoDiv3 = 4290772992 = 1023 * 2^22 has only its
\* bits 22-31 set.
ptoDiv1 == wordOf(2047)
ptoDiv2 == wordOf(4192256)
ptoDiv3 == [low |-> 0, high |-> 1023]
descPtoDiv2 == 11
descPtoDiv3 == 22

\* the bits of the int v < 2^11 that v << n moves past bit 31, n <= 22
shiftedOut(v, n) == (v \div Pow2(LowBits - n)) \div Pow2(HighBits)

\* what bits 22-31 hold after v << n.  When no bit is moved past bit 31 they
\* are the bits of v * 2^n.  When one is, the shift of the int overflows,
\* which is undefined: the field holds the remaining bits (the value wrapped
\* to 32 bits) or anything else, of which the two extremes are kept.
highAfterShift(v, n) ==
  IF shiftedOut(v, n) = 0
  THEN { v \div Pow2(LowBits - n) }
  ELSE { (v \div Pow2(LowBits - n)) % Pow2(HighBits), 0, Pow2(HighBits) - 1 }

\* the words v << n can give, for an int 0 <= v < 2^11 and n <= 22
shiftLeft(v, n) ==
  { [low |-> (v % Pow2(LowBits - n)) * Pow2(n), high |-> h] :
      h \in highAfterShift(v, n) }

\* main.cpp:610-611: i_k[0] | (i_k[1] << descPtoDiv2) | (i_k[2] << descPtoDiv3)
encodedPoints(i) ==
  { wordOr(wordOr(wordOf(i[1]), a), b) :
      a \in shiftLeft(i[2], descPtoDiv2), b \in shiftLeft(i[3], descPtoDiv3) }

\* (word & mask) >> n, the word taken as unsigned because the mask is
shiftRight(x, n) ==
  IF n <= LowBits
  THEN (x.low \div Pow2(n)) + (x.high % Pow2(n)) * Pow2(LowBits - n)
  ELSE x.high \div Pow2(n - LowBits)

\* draw.cpp:942-944: div[0], div[1], div[2] read from the stored word
decodedPoint(x) ==
  << shiftRight(wordAnd(x, ptoDiv1), 0),
     shiftRight(wordAnd(x, ptoDiv2), descPtoDiv2),
     shiftRight(wordAnd(x, ptoDiv3), descPtoDiv3) >>

\* the coordinates tried: the ends of 0..2^11 - 1 and the values about the
\* widths of the fields
CoordinateBits == 11
Coordinates ==
  { 0, 1, Pow2(HighBits - 1) - 1, Pow2(HighBits - 1), Pow2(HighBits) - 1,
    Pow2(HighBits), Pow2(HighBits) + 1, Pow2(CoordinateBits) - 1 }

InitDivision ==
  /\ packAtRest /\ memoryAtRest /\ q = << 0, 0, 0, 0 >> /\ divideAtRest
  /\ L = 0 /\ l = 0 /\ w = 0 /\ normalSetX = newSet
  /\ i_k \in Coordinates \X Coordinates \X Coordinates
  /\ point = wordOf(0) /\ div = << 0, 0, 0 >>
  /\ pc = "storeDivisionPoint"

\* main.cpp:609-611 and 392-402: storeDivisionPoint (L, key, i_k[0] | ...)
storeDivisionPoint_call ==
  /\ pc = "storeDivisionPoint"
  /\ point' \in encodedPoints(i_k)
  /\ pc' = "stored"
  /\ UNCHANGED << packVars, memoryVars, divideVars, l, w, q, i_k, div >>

\* draw.cpp:940-952: the three coordinates are read back
readDivisionPoint ==
  /\ pc = "stored"
  /\ div' = decodedPoint(point)
  /\ pc' = "read"
  /\ UNCHANGED << packVars, memoryVars, divideVars, l, w, q, i_k, point >>

NextDivision == storeDivisionPoint_call \/ readDivisionPoint

SpecDivision == InitDivision /\ [][NextDivision]_vars

(* ---- main.cpp: allocateMemory and tryAllocateMemory ---- *)

\* the greatest int, and a number of raster points for which the size of the
\* tables of type 4 is beyond it
IntMax == 2147483647
HugeRaster == 256

\* a * b for a, b >= 0 as long as it is at most IntMax, and -1 beyond (-1
\* stands for a double greater than every int)
timesWithin(a, b) ==
  IF a < 0 \/ b < 0 THEN -1
  ELSE IF a # 0 /\ b > IntMax \div a THEN -1
  ELSE a * b

RECURSIVE powWithin(_, _)
powWithin(a, n) == IF n = 0 THEN 1 ELSE timesWithin(a, powWithin(a, n - 1))

\* main.cpp:1205-1207: roundToNearest (pow (numRasterX, ceil (t / 2.0))
\* * pow (numRasterY, floor (t / 2.0))).  The conversion to int of a double
\* beyond IntMax is undefined: the least int or the greatest int comes out.
tableSizes(X, Y, t) ==
  LET exact == timesWithin(powWithin(X, (t + 1) \div 2), powWithin(Y, t \div 2))
  IN IF exact < 0 THEN { 0 - IntMax - 1, IntMax } ELSE { exact }

\* variant: memory_type is left as the loop left it
restoredNot(t) == t

\* main.cpp:1280: memory_type++
restored(t) == t + 1

\* the record of one request for the tables of type t
attempt(t, size, ok) == [type |-> t, size |-> size, ok |-> ok]

\* delete[] p: a null pointer stays null, any other is left dangling
deleted(p) == IF p = "null" THEN p ELSE "deleted"

RasterCounts == (1..MaxRaster) \cup {HugeRaster}

InitAllocate ==
  /\ packAtRest /\ wordAtRest /\ q = << 0, 0, 0, 0 >> /\ divideAtRest
  /\ L = 0 /\ l = 0 /\ w = 0 /\ normalSetX = newSet
  /\ numRasterX \in RasterCounts /\ numRasterY \in RasterCounts
  /\ memory_type = 0 /\ nL = 0
  /\ solution = "null" /\ divisionPoint = "null"
  /\ solutionMap = "null" /\ divisionPointMap = "null"
  /\ attempts = << >>
  /\ indexRasterX = << >> /\ indexRasterY = << >>
  /\ pc = "allocateMemory"

otherVars ==
  << packVars, wordVars, divideVars, l, w, q, numRasterX, numRasterY,
     indexRasterX, indexRasterY >>

\* main.cpp:1203-1225 and 1243-1245: memory_type = MEM_TYPE_4, nL,
\* memory_type--, and for nL >= 0 the two dense arrays are asked for; when
\* the second fails the first is deleted
allocateMemory_dense ==
  /\ pc = "allocateMemory"
  /\ memory_type' = 4 - 1
  /\ \E size \in tableSizes(numRasterX, numRasterY, 4) :
        /\ nL' = size
        /\ IF size >= 0
           THEN \/ /\ solution' = "allocated" /\ divisionPoint' = "allocated"
                   /\ attempts' = Append(attempts, attempt(4, size, TRUE))
                   /\ pc' = "allocated"
                \/ /\ solution' = solution /\ divisionPoint' = divisionPoint
                   /\ attempts' = Append(attempts, attempt(4, size, FALSE))
                   /\ pc' = "maps"
                \/ /\ solution' = deleted("allocated")
                   /\ divisionPoint' = divisionPoint
                   /\ attempts' = Append(attempts, attempt(4, size, FALSE))
                   /\ pc' = "maps"
           ELSE /\ solution' = solution /\ divisionPoint' = divisionPoint
                /\ attempts' = attempts
                /\ pc' = "maps"
  /\ UNCHANGED << otherVars, solutionMap, divisionPointMap >>

\* where the do-while loop goes after tryAllocateMemory returned false or
\* was not called: on while memory_type >= 0
afterFailure(t) == IF t >= 0 THEN "maps" ELSE "allocated"

\* main.cpp:1226-1241, 1246-1260, 1265-1278 and 1163-1195: one turn of the
\* do-while loop: nL for the current memory_type, memory_type--, and for
\* nL >= 0 tryAllocateMemory (nL), which asks for the two arrays of maps and
\* deletes both pointers when the second request fails
allocateMemory_maps ==
  /\ pc = "maps"
  /\ memory_type' = memory_type - 1
  /\ \E size \in tableSizes(numRasterX, numRasterY, memory_type) :
        /\ nL' = size
        /\ IF size >= 0
           THEN \/ /\ solutionMap' = "allocated"
                   /\ divisionPointMap' = "allocated"
                   /\ attempts' = Append(attempts, attempt(memory_type, size, TRUE))
                   /\ pc' = "allocated"
                \/ /\ solutionMap' = solutionMap
                   /\ divisionPointMap' = divisionPointMap
                   /\ attempts' = Append(attempts, attempt(memory_type, size, FALSE))
                   /\ pc' = afterFailure(memory_type - 1)
                \/ /\ solutionMap' = deleted("allocated")
                   /\ divisionPointMap' = deleted(divisionPointMap)
                   /\ attempts' = Append(attempts, attempt(memory_type, size, FALSE))
                   /\ pc' = afterFailure(memory_type - 1)
           ELSE /\ solutionMap' = solutionMap
                /\ divisionPointMap' = divisionPointMap
                /\ attempts' = attempts
                /\ pc' = afterFailure(memory_type - 1)
  /\ UNCHANGED << otherVars, solution, divisionPoint >>

\* main.cpp:1280-1281: memory_type++ and allocateMemory returns
allocateMemory_return ==
  /\ pc = "allocated"
  /\ memory_type' = restored(memory_type)
  /\ pc' = "done"
  /\ UNCHANGED << otherVars, nL, solution, divisionPoint, solutionMap,
                  divisionPointMap, attempts >>

NextAllocate ==
  \/ allocateMemory_dense
  \/ allocateMemory_maps
  \/ allocateMemory_return

SpecAllocate == InitAllocate /\ [][NextAllocate]_vars

(* ---- util.cpp: normalizePiece ---- *)

\* the locals i, j, i1, j1 of normalizePiece
piece(i, j, i1, j1) == [i |-> i, j |-> j, i1 |-> i1, j1 |-> j1]

\* util.cpp:98-112: rule (4) for degenerated L's
degenerated(r) ==
  IF r.i1 = 0 THEN piece(r.i, r.j1, r.i, r.j1)
  ELSE IF r.j1 = 0 THEN piece(r.i1, r.j, r.i1, r.j)
  ELSE IF r.i1 = r.i \/ r.j1 = r.j THEN piece(r.i, r.j, r.i, r.j)
  ELSE r

\* variant: no piece is discarded
discardedNever(r, ll, ww) == FALSE

\* util.cpp:116: the area of the L-piece is less than the area of the box
discarded(r, ll, ww) == r.i * r.j - (r.i - r.i1) * (r.j - r.j1) < ll * ww

\* std::swap (i, j); std::swap (i1, j1)
turned(r) == piece(r.j, r.i, r.j1, r.i1)

\* variant: a rectangle is turned whenever it is not a square
rectangleTurnedAlways(r) == r.i = r.i1 /\ r.j = r.j1 /\ r.i # r.j

\* util.cpp:122: a rectangle with i < j
rectangleTurned(r) == r.i = r.i1 /\ r.j = r.j1 /\ r.i < r.j

\* util.cpp:122-126
longerFirst(r) == IF rectangleTurned(r) THEN turned(r) ELSE r

\* util.cpp:128-136: a proper L with i < j is turned; with i = j and
\* i1 < j1 only i1 and j1 are exchanged
properL(r) == 0 < r.i1 /\ r.i1 < r.i /\ 0 < r.j1 /\ r.j1 < r.j


\* variant: a proper L with i = j keeps i1 and j1 as they are
symmetricSquareKept(r) ==
  IF properL(r) /\ r.i < r.j THEN turned(r) ELSE r

symmetric(r) ==
  IF properL(r) /\ r.i < r.j THEN turned(r)
  ELSE IF properL(r) /\ r.i = r.j /\ r.i1 < r.j1
       THEN piece(r.i, r.j, r.j1, r.i1)
       ELSE r

asQuadruple(r) == << r.i, r.j, r.i1, r.j1 >>

\* what normalizePiece leaves in q when the piece is kept
normalizedFrom(r) == asQuadruple(symmetric(longerFirst(r)))

\* normalizePiece (q) with the globals l and w: q as it is on return; a
\* discarded piece has only q[0] overwritten
normalizePieceOn(r, qq, ll, ww) ==
  IF discarded(r, ll, ww) THEN [qq EXCEPT ![1] = -1] ELSE normalizedFrom(r)

normalizePiece(qq, ll, ww) ==
  normalizePieceOn(degenerated(piece(qq[1], qq[2], qq[3], qq[4])), qq, ll, ww)

\* the quadruples (i, j, i', j') with 0 <= i' <= i and 0 <= j' <= j
Pieces ==
  { << i, j, i1, j1 >> : i \in 0..MaxPiece, j \in 0..MaxPiece,
                         i1 \in 0..MaxPiece, j1 \in 0..MaxPiece }

InitNormalizePiece ==
  /\ packAtRest /\ memoryAtRest /\ wordAtRest /\ divideAtRest
  /\ L = 0 /\ normalSetX = newSet
  /\ l \in 1..MaxBox /\ w \in 1..MaxBox
  /\ q \in { p \in Pieces : p[3] <= p[1] /\ p[4] <= p[2] }
  /\ pc = "normalizePiece"

\* one call normalizePiece (q); it is called once, then once more on what
\* the first call left in q
normalizePiece_call ==
  /\ pc \in {"normalizePiece", "once"}
  /\ q' = normalizePiece(q, l, w)
  /\ pc' = (IF pc = "normalizePiece" THEN "once" ELSE "twice")
  /\ UNCHANGED << packVars, memoryVars, wordVars, divideVars, l, w >>

NextNormalizePiece == normalizePiece_call

SpecNormalizePiece == InitNormalizePiece /\ [][NextNormalizePiece]_vars


(* ---- main.cpp: divide's two calls of normalizePiece ---- *)

\* q1 is an L-piece and q2 the same piece with its axes exchanged,
\* (j, i, j', i')
InitCanonical ==
  /\ packAtRest /\ memoryAtRest /\ wordAtRest
  /\ L = 0 /\ normalSetX = newSet /\ q = << 0, 0, 0, 0 >> /\ Bk = 0
  /\ ret = 0 /\ calls = {}
  /\ l \in 1..MaxBox /\ w \in 1..MaxBox
  /\ q1 \in { p \in Pieces : p[3] <= p[1] /\ p[4] <= p[2] }
  /\ q2 = << q1[2], q1[1], q1[4], q1[3] >>
  /\ pc = "normalize q1"

\* main.cpp:261: normalizePiece (q1)
normalizePiece_q1 ==
  /\ pc = "normalize q1"
  /\ q1' = normalizePiece(q1, l, w)
  /\ pc' = "normalize q2"
  /\ UNCHANGED << packVars, memoryVars, wordVars, l, w, q, Bk, q2, ret, calls >>

\* main.cpp:262: normalizePiece (q2)
normalizePiece_q2 ==
  /\ pc = "normalize q2"
  /\ q2' = normalizePiece(q2, l, w)
  /\ pc' = "normalized"
  /\ UNCHANGED << packVars, memoryVars, wordVars, l, w, q, Bk, q1, ret, calls >>

NextCanonical == normalizePiece_q1 \/ normalizePiece_q2

SpecCanonical == InitCanonical /\ [][NextCanonical]_vars


(* ---- util.cpp: the subdivisions B1, ..., B9 ---- *)

\* standardPositionBk (i, q, q1, q2): << q1, q2 >> as the function leaves
\* them.  The C arrays i[0..2] and qq[0..3] are the sequences i and qq, read
\* one place higher; norm is the array normalize.
standardPositionB1(norm, i, qq) ==
  << << qq[3], norm[qq[2] - i[2]], i[1], norm[qq[2] - qq[4]] >>,
     << qq[1], qq[4], norm[qq[1] - i[1]], i[2] >> >>

standardPositionB2(norm, i, qq) ==
  << << qq[3], norm[qq[2] - qq[4]], norm[qq[3] - i[1]], norm[qq[2] - i[2]] >>,
     << qq[1], i[2], i[1], qq[4] >> >>

standardPositionB3(norm, i, qq) ==
  << << qq[1], qq[2], i[1], i[2] >>,
     << norm[qq[1] - i[1]], norm[qq[2] - i[2]], norm[qq[3] - i[1]],
        norm[qq[4] - i[2]] >> >>

standardPositionB4(norm, i, qq) ==
  << << i[1], qq[2], qq[3], i[2] >>,
     << norm[qq[1] - qq[3]], qq[4], norm[qq[1] - i[1]], norm[qq[4] - i[2]] >> >>

standardPositionB5(norm, i, qq) ==
  << << qq[3], qq[2], i[1], norm[qq[2] - i[2]] >>,
     << norm[qq[1] - i[1]], qq[4], norm[qq[1] - qq[3]], i[2] >> >>

standardPositionB6(norm, i, qq) ==
  << << i[3], qq[2], i[1], norm[qq[2] - i[2]] >>,
     << norm[qq[1] - i[1]], qq[2], norm[qq[1] - i[3]], i[2] >> >>

standardPositionB7(norm, i, qq) ==
  << << qq[1], norm[qq[2] - i[2]], i[1], norm[qq[2] - i[3]] >>,
     << qq[1], i[3], norm[qq[1] - i[1]], i[2] >> >>

\* variant: the third component of q2 is not normalized
standardPositionB8Raw(norm, i, qq) ==
  << << qq[3], qq[2], i[1], norm[qq[2] - i[2]] >>,
     << norm[qq[1] - i[1]], i[2], qq[3] - i[1], qq[4] >> >>

standardPositionB8(norm, i, qq) ==
  << << qq[3], qq[2], i[1], norm[qq[2] - i[2]] >>,
     << norm[qq[1] - i[1]], i[2], norm[qq[3] - i[1]], qq[4] >> >>

standardPositionB9(norm, i, qq) ==
  << << i[1], norm[qq[2] - i[2]], qq[3], norm[qq[4] - i[2]] >>,
     << qq[1], qq[4], norm[qq[1] - i[1]], i[2] >> >>

\* the elements of normalize that standardPositionBk reads
readBy(k, i, qq) ==
  CASE k = 1 -> { qq[2] - i[2], qq[2] - qq[4], qq[1] - i[1] }
    [] k = 2 -> { qq[2] - qq[4], qq[3] - i[1], qq[2] - i[2] }
    [] k = 3 -> { qq[1] - i[1], qq[2] - i[2], qq[3] - i[1], qq[4] - i[2] }
    [] k = 4 -> { qq[1] - qq[3], qq[1] - i[1], qq[4] - i[2] }
    [] k = 5 -> { qq[2] - i[2], qq[1] - i[1], qq[1] - qq[3] }
    [] k = 6 -> { qq[2] - i[2], qq[1] - i[1], qq[1] - i[3] }
    [] k = 7 -> { qq[2] - i[2], qq[2] - i[3], qq[1] - i[1] }
    [] k = 8 -> { qq[2] - i[2], qq[1] - i[1], qq[3] - i[1] }
    [] k = 9 -> { qq[2] - i[2], qq[4] - i[2], qq[1] - i[1] }

\* the call through the pointer standardPosition (main.cpp:258)
standardPosition(k, norm, i, qq) ==
  CASE k = 1 -> standardPositionB1(norm, i, qq)
    [] k = 2 -> standardPositionB2(norm, i, qq)
    [] k = 3 -> standardPositionB3(norm, i, qq)
    [] k = 4 -> standardPositionB4(norm, i, qq)
    [] k = 5 -> standardPositionB5(norm, i, qq)
    [] k = 6 -> standardPositionB6(norm, i, qq)
    [] k = 7 -> standardPositionB7(norm, i, qq)
    [] k = 8 -> standardPositionB8(norm, i, qq)
    [] k = 9 -> standardPositionB9(norm, i, qq)

\* the array normalize of a pallet of length MaxPiece and an L-piece q of it;
\* the table is the same for the boxes (l, w) and (w, l)
InitStandardPosition ==
  /\ inL = 0 /\ inW = 0 /\ inl = 0 /\ inw = 0
  /\ W = 0 /\ swap = FALSE /\ N = INFINITY_
  /\ indexX = << >> /\ indexY = << >>
  /\ lowerBound = << >> /\ upperBound = << >> /\ solutionDepth = << >>
  /\ reachedLimit = << >> /\ cutPoints = << >>
  /\ wild = FALSE /\ bd = noFrame /\ BD_solution = 0
  /\ ptoRet = << >> /\ result = << >> /\ returned = "none"
  /\ pointee = "none" /\ previous = -1
  /\ memoryAtRest /\ wordAtRest
  /\ l \in 1..MaxBox /\ w \in 1..l
  /\ L = MaxPiece
  /\ normalSetX = constructConicCombinations(MaxPiece, l, w)
  /\ normalize = normalizeTable(MaxPiece, normalSetX)
  /\ q \in { p \in Pieces : p[3] <= p[1] /\ p[4] <= p[2] }
  /\ Bk = 0 /\ q1 = << 0, 0, 0, 0 >> /\ q2 = << 0, 0, 0, 0 >>
  /\ ret = 0 /\ calls = {}
  /\ pc = "standardPosition"

\* one call (*standardPosition) (i, q, q1, q2) for a subdivision B and a
\* point i whose subtractions are all elements of normalize; i[2] is written
\* only by divideB6 and divideB7
standardPosition_call ==
  /\ pc = "standardPosition"
  /\ \E k \in 1..9, x \in 0..MaxPiece, y \in 0..MaxPiece, z \in 0..MaxPiece :
        /\ k \in {6, 7} \/ z = 0
        /\ readBy(k, << x, y, z >>, q) \subseteq DOMAIN normalize
        /\ Bk' = k
        /\ i_k' = << x, y, z >>
        /\ q1' = standardPosition(k, normalize, << x, y, z >>, q)[1]
        /\ q2' = standardPosition(k, normalize, << x, y, z >>, q)[2]
  /\ pc' = "divided"
  /\ UNCHANGED << packVars, memoryVars, l, w, q, point, div, ret, calls >>

NextStandardPosition == standardPosition_call

SpecStandardPosition == InitStandardPosition /\ [][NextStandardPosition]_vars

(* ---- main.cpp, util.cpp: the indices and the memory of the L-solver ---- *)

\* main.cpp:1102-1117 and 1119-1133: i runs over 0..D and j over the raster
\* points; a raster point gets the next index, any other value the index of
\* the value before it
indexRasterLoop(raster, D) ==
  LET RECURSIVE fill(_)
      fill(st) ==
        IF st.i > D THEN st
        ELSE IF At(raster, st.j) = st.i
             THEN fill([i |-> st.i + 1, j |-> st.j + 1, num |-> st.num + 1,
                        arr |-> Append(st.arr, st.num)])
             ELSE fill([i |-> st.i + 1, j |-> st.j, num |-> st.num,
                        arr |-> Append(st.arr, st.arr[Len(st.arr)])])
  IN fill([i |-> 0, j |-> 0, num |-> 0, arr |-> << >>])

\* the array of D + 2 elements the loop leaves, with its last element
\* (main.cpp:1117 and 1133), and the number of indices given
indexRasterOf(filled, D) ==
  [index |-> [i \in 0..(D + 1) |->
                IF i = D + 1 THEN filled.arr[D + 1] + 1 ELSE filled.arr[i + 1]],
   num |-> filled.num]

\* makeIndices (L, W): the raster points of (L, W) over normalSetX are merged
\* as initialize merges them (main.cpp:1047-1089), and the same merged set
\* indexes both axes
makeIndicesOver(raster, LL, WW) ==
  [X |-> indexRasterOf(indexRasterLoop(raster, LL), LL),
   Y |-> indexRasterOf(indexRasterLoop(raster, WW), WW)]

makeIndicesFrom(rp, LL, WW) ==
  makeIndicesOver(mergedRasterSet(rp.rasterX, rp.rasterY, LL, WW), LL, WW)

makeIndices(LL, WW) ==
  makeIndicesFrom(constructRasterPoints(LL, WW, normalSetX, normalize), LL, WW)

\* variant: q[2] and q[3] have no part in the index
LIndexOfCorner(qq, type) ==
  CASE type \in {2, 3, 4} ->
         (indexRasterX[qq[1]] * numRasterY) + indexRasterY[qq[2]]
    [] type = 1 -> indexRasterX[qq[1]]
    [] OTHER -> 0

\* util.cpp:577-602
LIndex(qq, type) ==
  CASE type = 4 -> (((indexRasterX[qq[1]] * numRasterY) + indexRasterY[qq[2]])
                      * numRasterX + indexRasterX[qq[3]]) * numRasterY
                   + indexRasterY[qq[4]]
    [] type = 3 -> ((indexRasterX[qq[1]] * numRasterY) + indexRasterY[qq[2]])
                      * numRasterX + indexRasterX[qq[3]]
    [] type = 2 -> (indexRasterX[qq[1]] * numRasterY) + indexRasterY[qq[2]]
    [] type = 1 -> indexRasterX[qq[1]]
    [] OTHER -> 0

\* util.cpp:547-565
getKey(qq, type) ==
  CASE type = 4 -> 0
    [] type = 3 -> qq[4]
    [] type = 2 -> (indexRasterX[qq[3]] * numRasterY) + indexRasterY[qq[4]]
    [] type = 1 -> ((indexRasterY[qq[2]]) * numRasterX + indexRasterX[qq[3]])
                      * numRasterY + indexRasterY[qq[4]]
    [] OTHER -> 0

\* the elements of indexRasterX and indexRasterY that LIndex and getKey read
\* for the piece qq are all inside the two arrays
indexable(qq) ==
  /\ qq[1] \in DOMAIN indexRasterX /\ qq[3] \in DOMAIN indexRasterX
  /\ qq[2] \in DOMAIN indexRasterY /\ qq[4] \in DOMAIN indexRasterY

\* where the record of the piece qq is kept: solution[L] for type 4 (the key
\* stays 0, main.cpp:743), solutionMap[L][key] for the other types
slotOf(qq) == << LIndex(qq, memory_type), getKey(qq, memory_type) >>

\* a record of solution or solutionMap: n is word & nRet and B is
\* (word & solucao) >> descSol
record(n, B) == [n |-> n, B |-> B]

HOMOGENEOUS == 0

\* main.cpp:769-772, 514-515 and 609-611: the word holding coordinates
\* under 2^10, which no shift overflows
pointWord(x, y, z) == CHOOSE word \in encodedPoints(<< x, y, z >>) : TRUE

(* ---- main.cpp: the L-solver ---- *)

\* S = [sol, dp, lowerBound, calls, wild]: the records and the division
\* points stored so far, each under its slot, the matrix lowerBound, the
\* calls of solve made so far and whether an element outside an array was
\* read

\* the area of an L-piece
areaOf(qq) == qq[1] * qq[2] - (qq[1] - qq[3]) * (qq[2] - qq[4])

\* main.cpp:159-164
L_UpperBound(qq) == areaOf(qq) \div (l * w)

\* R_LowerBound and R_UpperBound read normalize, indexX and indexY at these
\* places
boundReadable(x, y) ==
  /\ x \in DOMAIN normalize /\ y \in DOMAIN normalize
  /\ hasX(normalize[x]) /\ hasY(normalize[y])

\* main.cpp:138-145
R_UpperBound(x, y) == upperBound[indexX[normalize[x]]][indexY[normalize[y]]]

\* main.cpp:180-186
R_LowerBound(lb, x, y) == lb[indexX[normalize[x]]][indexY[normalize[y]]]

\* the four rectangles whose lower bounds L_LowerBound and LCut add
splitsReadable(qq) ==
  /\ boundReadable(qq[3], qq[2] - qq[4]) /\ boundReadable(qq[1], qq[4])
  /\ boundReadable(qq[3], qq[2]) /\ boundReadable(qq[1] - qq[3], qq[4])

\* main.cpp:211-232: a is the horizontal split, b the vertical one
L_LowerBound(lb, qq) ==
  LET a == R_LowerBound(lb, qq[3], qq[2] - qq[4]) + R_LowerBound(lb, qq[1], qq[4])
      b == R_LowerBound(lb, qq[3], qq[2]) + R_LowerBound(lb, qq[1] - qq[3], qq[4])
  IN IF a > b THEN [horizontalCut |-> TRUE, n |-> a]
     ELSE [horizontalCut |-> FALSE, n |-> b]

\* main.cpp:252-263: divide, the subdivision Bsub applied and both pieces
\* normalized
divide(ik, qq, Bsub) ==
  << normalizePiece(standardPosition(Bsub, normalize, ik, qq)[1], l, w),
     normalizePiece(standardPosition(Bsub, normalize, ik, qq)[2], l, w) >>

\* storeSolution and storeDivisionPoint (main.cpp:364-402)
stored(S, qq, n, Bsub, ik) ==
  [S EXCEPT !.sol = (slotOf(qq) :> record(n, Bsub)) @@ @,
            !.dp = (slotOf(qq) :> pointWord(ik[1], ik[2], ik[3])) @@ @]

\* main.cpp:745-760: solution[L] != -1, or solutionMap[L].count (key) > 0
alreadySolved(S, qq) == slotOf(qq) \in DOMAIN S.sol

called(S, parent, child) ==
  [S EXCEPT !.calls = @ \cup {<< parent, child >>}]

RECURSIVE solveL(_, _)

\* st = [S, cur, done]: cur is the local LSolution & nRet of divideL,
\* divideB6 or divideB7 and done whether the function has returned

\* main.cpp:507-520: the two values solve returned are added and, when the
\* sum is better, stored with the subdivision and the point
withSecond(st, qq, Bsub, ik, ub, n1, r2) ==
  IF n1 + r2.n > st.cur
  THEN [S |-> stored(r2.S, qq, n1 + r2.n, Bsub, ik), cur |-> n1 + r2.n,
        done |-> (n1 + r2.n = ub)]
  ELSE [S |-> r2.S, cur |-> st.cur, done |-> FALSE]

\* main.cpp:504-505: L2Solution = solve (L2, q2) after L1Solution
withFirst(st, qq, Bsub, ik, ub, c2, r1) ==
  withSecond(st, qq, Bsub, ik, ub, r1.n, solveL(called(r1.S, qq, c2), c2))

\* main.cpp:494-505: a pair with a discarded piece is skipped, and so is a
\* pair whose upper bounds do not exceed the value held
divided(st, qq, Bsub, ik, ub, d) ==
  IF d[1][1] < 0 \/ d[2][1] < 0 THEN st
  ELSE IF ~(indexable(d[1]) /\ indexable(d[2]))
       THEN [st EXCEPT !.S.wild = TRUE]
       ELSE IF L_UpperBound(d[1]) + L_UpperBound(d[2]) > st.cur
            THEN withFirst(st, qq, Bsub, ik, ub, d[2],
                           solveL(called(st.S, qq, d[1]), d[1]))
            ELSE st

\* one point i_k of the loops: the subtractions of the subdivision must all
\* be elements of normalize
candidate(st, qq, Bsub, ik, ub) ==
  IF readBy(Bsub, ik, qq) \subseteq DOMAIN normalize
  THEN divided(st, qq, Bsub, ik, ub, divide(ik, qq, Bsub))
  ELSE [st EXCEPT !.S.wild = TRUE]

\* the points of the sequence pts tried in order until the function returns
RECURSIVE pointsFrom(_, _, _, _, _, _)
pointsFrom(st, qq, Bsub, pts, k, ub) ==
  IF st.done \/ st.S.wild \/ k > Len(pts) THEN st
  ELSE pointsFrom(candidate(st, qq, Bsub, pts[k], ub), qq, Bsub, pts, k + 1, ub)

\* what divideL, divideB6, divideB7 and solve hand back: the memory they
\* leave and the value they return, of which n is the part & nRet
leaving(st) == [S |-> st.S, n |-> st.cur]

\* the points of the set from the index start on that are <= bound
\* (main.cpp:476-482 and 485-491: the loop breaks at the first greater)
upTo(set, start, bound) ==
  LET RECURSIVE run(_)
      run(i) == IF i < set.size /\ ~(At(set, i) > bound)
                THEN << At(set, i) >> \o run(i + 1) ELSE << >>
  IN run(start)

\* every pair of a sequence xs and a sequence ys, the second running faster
pairsOf(xs, ys) ==
  [k \in 1..(Len(xs) * Len(ys)) |->
     << xs[((k - 1) \div Len(ys)) + 1], ys[((k - 1) % Len(ys)) + 1], 0 >>]

\* main.cpp:459-525: divideL (L, q, constraints, B, standardPosition, X,
\* startX, Y, startY), of which only constraints[1] and constraints[3] are
\* read; cur is getSolution (L, q, &key) & nRet
divideL(S, qq, c1, c3, Bsub, X, startX, Y, startY) ==
  leaving(pointsFrom([S |-> S, cur |-> S.sol[slotOf(qq)].n, done |-> FALSE],
                     qq, Bsub,
                     pairsOf(upTo(X, startX, c1), upTo(Y, startY, c3)), 1,
                     L_UpperBound(qq)))

\* all points of a set
allOf(set) == [k \in 1..set.size |-> At(set, k - 1)]

\* main.cpp:566-584: x' over X, x'' over X from x' on, not both 0, y' over Y
pointsB6(X, Y) ==
  LET xs == allOf(X)
      ys == allOf(Y)
      n == Len(xs)
      m == Len(ys)
      all == [k \in 1..(n * n * m) |->
                << xs[((k - 1) \div (n * m)) + 1], ys[((k - 1) % m) + 1],
                   xs[(((k - 1) \div m) % n) + 1] >>]
  IN SelectSeq(all, LAMBDA p : p[1] <= p[3] /\ ~(p[1] = 0 /\ p[3] = 0))

\* main.cpp:668-686: y' over Y, y'' over Y from y' on, not both 0, x' over X
pointsB7(X, Y) ==
  LET xs == allOf(X)
      ys == allOf(Y)
      n == Len(xs)
      m == Len(ys)
      all == [k \in 1..(m * m * n) |->
                << xs[((k - 1) % n) + 1], ys[((k - 1) \div (m * n)) + 1],
                   ys[(((k - 1) \div n) % m) + 1] >>]
  IN SelectSeq(all, LAMBDA p : p[2] <= p[3] /\ ~(p[2] = 0 /\ p[3] = 0))

\* main.cpp:552-623: divideB6 (L, q, X, Y)
divideB6(S, qq, X, Y) ==
  leaving(pointsFrom([S |-> S, cur |-> S.sol[slotOf(qq)].n, done |-> FALSE],
                     qq, 6, pointsB6(X, Y), 1, R_UpperBound(qq[1], qq[2])))

\* main.cpp:654-725: divideB7 (L, q, X, Y)
divideB7(S, qq, X, Y) ==
  leaving(pointsFrom([S |-> S, cur |-> S.sol[slotOf(qq)].n, done |-> FALSE],
                     qq, 7, pointsB7(X, Y), 1, R_UpperBound(qq[1], qq[2])))

\* main.cpp:789-792: the first index whose point is not less than v
firstNotLess(set, v) ==
  LET RECURSIVE run(_)
      run(i) == IF At(set, i) < v THEN run(i + 1) ELSE i
  IN run(0)

\* main.cpp:797-965: the seven subdivisions of a non-degenerated L in their
\* order, each with constraints[1], constraints[3], startX and startY
subdivisionsOfL(qq, X, Y) ==
  << [B |-> 1, c1 |-> qq[3], c3 |-> qq[4], startX |-> 0, startY |-> 0],
     [B |-> 3, c1 |-> qq[3], c3 |-> qq[4], startX |-> 0, startY |-> 0],
     [B |-> 5, c1 |-> qq[3], c3 |-> qq[4], startX |-> 0, startY |-> 0],
     [B |-> 2, c1 |-> qq[3], c3 |-> At(Y, Y.size - 1), startX |-> 0,
      startY |-> firstNotLess(Y, qq[4])],
     [B |-> 8, c1 |-> qq[3], c3 |-> At(Y, Y.size - 1), startX |-> 0,
      startY |-> firstNotLess(Y, qq[4])],
     [B |-> 4, c1 |-> At(X, X.size - 1), c3 |-> qq[4],
      startX |-> firstNotLess(X, qq[3]), startY |-> 0],
     [B |-> 9, c1 |-> At(X, X.size - 1), c3 |-> qq[4],
      startX |-> firstNotLess(X, qq[3]), startY |-> 0] >>

\* the subdivisions tried from the k-th on; the first that reaches the
\* upper bound ends the search
RECURSIVE subdivisionsFrom(_, _, _, _, _, _)
subdivisionsFrom(r, qq, X, Y, subs, k) ==
  IF k > Len(subs) \/ r.S.wild \/ r.n = L_UpperBound(qq) THEN r
  ELSE subdivisionsFrom(divideL(r.S, qq, subs[k].c1, subs[k].c3, subs[k].B,
                                X, subs[k].startX, Y, subs[k].startY),
                        qq, X, Y, subs, k + 1)

\* main.cpp:764-774: the record is seeded with L_LowerBound and B1, and the
\* division point with the better of the two splits, before any subdivision
\* is tried
seeded(S, qq, lo) ==
  stored(S, qq, lo.n, 1,
         IF lo.horizontalCut THEN << 0, qq[4], 0 >> ELSE << qq[3], 0, 0 >>)

\* main.cpp:789-792: the loops that find startX and startY stop only at a
\* point not less than q[2] (resp. q[3])
searchedL(r, qq, rp) ==
  IF At(rp.rasterX, rp.rasterX.size - 1) < qq[3]
     \/ At(rp.rasterY, rp.rasterY.size - 1) < qq[4]
  THEN [S |-> [r.S EXCEPT !.wild = TRUE], n |-> r.n]
  ELSE subdivisionsFrom(r, qq, rp.rasterX, rp.rasterY,
                        subdivisionsOfL(qq, rp.rasterX, rp.rasterY), 1)

\* main.cpp:762-970: a non-degenerated L
solveProperL(S, qq, lo) ==
  IF lo.n # L_UpperBound(qq)
  THEN searchedL([S |-> seeded(S, qq, lo), n |-> lo.n], qq,
                 constructRasterPoints(qq[1], qq[2], normalSetX, normalize))
  ELSE [S |-> seeded(S, qq, lo), n |-> lo.n]

\* main.cpp:1007 and 1033: the lower bound of the rectangle is updated
lowerBoundUpdated(r, qq) ==
  IF r.S.wild THEN r
  ELSE IF hasX(qq[1]) /\ hasY(qq[2])
       THEN [S |-> [r.S EXCEPT !.lowerBound[indexX[qq[1]]][indexY[qq[2]]] = r.n],
             n |-> r.n]
       ELSE [S |-> [r.S EXCEPT !.wild = TRUE], n |-> r.n]

\* main.cpp:1000-1033: B7 is tried when B6 has not reached the upper bound
afterB6(r, qq, rp) ==
  IF r.S.wild \/ r.n = R_UpperBound(qq[1], qq[2])
  THEN lowerBoundUpdated(r, qq)
  ELSE lowerBoundUpdated(divideB7(r.S, qq, rp.rasterX, rp.rasterY), qq)

searchedR(S, qq, rp) ==
  afterB6(divideB6(S, qq, rp.rasterX, rp.rasterY), qq, rp)

\* main.cpp:971-1036: a degenerated L, seeded with R_LowerBound and
\* HOMOGENEOUS
solveRectangle(S, qq, lo) ==
  IF lo # R_UpperBound(qq[1], qq[2])
  THEN searchedR([S EXCEPT !.sol = (slotOf(qq) :> record(lo, HOMOGENEOUS)) @@ @],
                 qq,
                 constructRasterPoints(qq[1], qq[2], normalSetX, normalize))
  ELSE [S |-> [S EXCEPT !.sol = (slotOf(qq) :> record(lo, HOMOGENEOUS)) @@ @],
        n |-> lo]

\* main.cpp:740-1037: solve (L, q) with L = LIndex (q).  A read outside an
\* array makes everything after it arbitrary: the call is then recorded as
\* wild and changes nothing else.
solveL(S, qq) ==
  IF S.wild THEN [S |-> S, n |-> 0]
  ELSE IF alreadySolved(S, qq) THEN [S |-> S, n |-> S.sol[slotOf(qq)].n]
  ELSE IF qq[1] # qq[3]
       THEN IF splitsReadable(qq)
            THEN solveProperL(S, qq, L_LowerBound(S.lowerBound, qq))
            ELSE [S |-> [S EXCEPT !.wild = TRUE], n |-> 0]
       ELSE IF boundReadable(qq[1], qq[2])
            THEN solveRectangle(S, qq, R_LowerBound(S.lowerBound, qq[1], qq[2]))
            ELSE [S |-> [S EXCEPT !.wild = TRUE], n |-> 0]

(* ---- draw.cpp: reconstruction of the L-solver's solution ---- *)

\* D = [ret, sol, dp, wild]: the number of rows written, the records (a
\* lookup in a map inserts the missing key), the division points and whether
\* an element outside an array was read

\* the subdivision of solution[L] = -1, the value of a piece never solved:
\* (-1 & solucao) >> descSol
unsolved == 15

\* draw.cpp:1402-1411: the subdivision drawR reads.  solutionMap[L][h] of a
\* missing key is a new element 0.
divisionTypeOf(D, qq) ==
  IF slotOf(qq) \in DOMAIN D.sol THEN D.sol[slotOf(qq)].B
  ELSE IF memory_type = 4 THEN unsolved ELSE HOMOGENEOUS

lookedUp(D, qq) ==
  IF slotOf(qq) \in DOMAIN D.sol \/ memory_type = 4 THEN D
  ELSE [D EXCEPT !.sol = (slotOf(qq) :> record(0, HOMOGENEOUS)) @@ @]

\* ret = drawBD (L, W, ret): the rows of the five-block solution are added
withBD(D, rows) ==
  [D EXCEPT !.ret = @ + Len(rows.ptoRet), !.wild = @ \/ rows.wild]

drawnBD(D, LL, WW) ==
  withBD(D, draw([ptoRet |-> << >>, wild |-> FALSE], LL, WW, 0, 0))

\* draw.cpp:91-100: LCut; a is the vertical split, b the horizontal one
LCut(qq) ==
  LET a == R_LowerBound(lowerBound, qq[3], qq[2])
           + R_LowerBound(lowerBound, qq[1] - qq[3], qq[4])
      b == R_LowerBound(lowerBound, qq[3], qq[2] - qq[4])
           + R_LowerBound(lowerBound, qq[1], qq[4])
  IN IF a > b THEN VERTICAL ELSE HORIZONTAL

\* draw.cpp:1415-1451: the case HOMOGENEOUS
drawHomogeneousL(D, qq) ==
  IF qq[1] # qq[3]
  THEN IF ~splitsReadable(qq) THEN [D EXCEPT !.wild = TRUE]
       ELSE IF LCut(qq) = VERTICAL
            THEN drawnBD(drawnBD(D, qq[3], qq[2]),
                         normalize[qq[1] - qq[3]], qq[4])
            ELSE drawnBD(drawnBD(D, qq[3], normalize[qq[2] - qq[4]]),
                         qq[1], qq[4])
  ELSE drawnBD(D, qq[1], qq[2])

RECURSIVE drawR(_, _)

\* draw.cpp:398-402 and 445-449: a piece recovered from the division point
\* is normalized, its index computed and drawR called on it
drawnPiece(D, c) ==
  IF indexable(c) THEN drawR(D, c) ELSE [D EXCEPT !.wild = TRUE]

\* draw.cpp:367-1390: drawB1, ..., drawB9 but for the coordinates of the
\* rows, which P1, ..., P8 move without adding or removing any: the division
\* point is read back, the subdivision replayed and both pieces drawn
drawnPieces(D, qq, Bsub, ik) ==
  IF readBy(Bsub, ik, qq) \subseteq DOMAIN normalize
  THEN drawnPiece(drawnPiece(D, divide(ik, qq, Bsub)[1]),
                  divide(ik, qq, Bsub)[2])
  ELSE [D EXCEPT !.wild = TRUE]

drawB(D, qq, Bsub, dv) ==
  drawnPieces(D, qq, Bsub,
              << dv[1], dv[2], IF Bsub \in {6, 7} THEN dv[3] ELSE 0 >>)

\* draw.cpp:1395-1483: drawR (L, q) with L = LIndex (q)
drawR(D, qq) ==
  IF D.wild THEN D
  ELSE IF divisionTypeOf(D, qq) = HOMOGENEOUS
       THEN drawHomogeneousL(lookedUp(D, qq), qq)
       ELSE IF divisionTypeOf(D, qq) \in 1..9
            THEN drawB(D, qq, divisionTypeOf(D, qq),
                       decodedPoint(D.dp[slotOf(qq)]))
            ELSE D

(* ---- the L-solver run on the pallet after solve_BD ---- *)

\* the variables the L-solver's steps leave alone
solverRest ==
  << inputVars, L, W, l, w, swap, N, normalSetX, normalize, indexX, indexY,
     upperBound, solutionDepth, reachedLimit, cutPoints, bd, BD_solution,
     ptoRet, result, returned, pointee, previous, nL, attempts, wordVars,
     Bk, q1, q2 >>

\* main.cpp:1042-1138: makeIndices (L_n, W_n)
makeIndices_call ==
  /\ pc = "draw"
  /\ \E g \in {makeIndices(L_n, W_n)} :
        /\ indexRasterX' = g.X.index /\ numRasterX' = g.X.num
        /\ indexRasterY' = g.Y.index /\ numRasterY' = g.Y.num
  /\ pc' = "allocate"
  /\ UNCHANGED << solverRest, lowerBound, wild, memory_type, solution,
                  divisionPoint, solutionMap, divisionPointMap, q, ret, calls >>

\* main.cpp:1200-1281: allocateMemory leaves memory_type = 4 with the two
\* arrays filled with -1, or a smaller type with the two arrays of empty maps
allocateMemory_call ==
  /\ pc = "allocate"
  /\ \E t \in 1..4 :
        /\ memory_type' = t
        /\ solution' = IF t = 4 THEN << >> ELSE solution
        /\ divisionPoint' = IF t = 4 THEN << >> ELSE divisionPoint
        /\ solutionMap' = IF t = 4 THEN solutionMap ELSE << >>
        /\ divisionPointMap' = IF t = 4 THEN divisionPointMap ELSE << >>
  /\ pc' = "solve"
  /\ UNCHANGED << solverRest, lowerBound, wild, numRasterX, numRasterY,
                  indexRasterX, indexRasterY, q, ret, calls >>

\* the records of the memory in use
memo == IF memory_type = 4 THEN solution ELSE solutionMap
memoPoints == IF memory_type = 4 THEN divisionPoint ELSE divisionPointMap

\* the memory becomes what a call left
setMemory(sol, dp) ==
  /\ solution' = IF memory_type = 4 THEN sol ELSE solution
  /\ divisionPoint' = IF memory_type = 4 THEN dp ELSE divisionPoint
  /\ solutionMap' = IF memory_type = 4 THEN solutionMap ELSE sol
  /\ divisionPointMap' = IF memory_type = 4 THEN divisionPointMap ELSE dp

\* solve (LIndex (q), q) for the pallet q = (L_n, W_n, L_n, W_n), every
\* call it makes included
solve_call ==
  /\ pc = "solve"
  /\ q' = << L_n, W_n, L_n, W_n >>
  /\ \E r \in {solveL([sol |-> memo, dp |-> memoPoints,
                       lowerBound |-> lowerBound, calls |-> calls,
                       wild |-> wild \/ ~indexable(<< L_n, W_n, L_n, W_n >>)],
                      << L_n, W_n, L_n, W_n >>)} :
        /\ setMemory(r.S.sol, r.S.dp)
        /\ lowerBound' = r.S.lowerBound
        /\ calls' = r.S.calls
        /\ wild' = r.S.wild
  /\ pc' = "solved"
  /\ UNCHANGED << solverRest, memory_type, numRasterX, numRasterY,
                  indexRasterX, indexRasterY, ret >>

\* draw.cpp:1551-1554: ret = 0 and drawR (L, q)
drawR_call ==
  /\ pc = "solved"
  /\ \E D \in {drawR([ret |-> 0, sol |-> memo, dp |-> memoPoints,
                         wild |-> wild], q)} :
        /\ ret' = D.ret
        /\ setMemory(D.sol, memoPoints)
        /\ wild' = D.wild
  /\ pc' = "drawn"
  /\ UNCHANGED << solverRest, lowerBound, memory_type, numRasterX, numRasterY,
                  indexRasterX, indexRasterY, q, calls >>

NextLSolver ==
  \/ pack_entry
  \/ solve_BD_initialize
  \/ BD_entry
  \/ BD_NonGuillotine
  \/ BD_Vertical
  \/ BD_Horizontal
  \/ solve_BD_return
  \/ makeIndices_call
  \/ allocateMemory_call
  \/ solve_call
  \/ drawR_call

\* pack called on a pallet of sides up to MaxPallet and a box of sides up to
\* MaxBox
InitLSolver ==
  /\ \E a \in 1..MaxPallet, b \in 1..MaxPallet, c \in 1..MaxBox,
        d \in 1..MaxBox : Start(a, b, c, d)
  /\ previous = -1

SpecLSolver == InitLSolver /\ [][NextLSolver]_vars

(* ---- the quantities the properties are stated with ---- *)

\* the four arguments of the call are positive
PositiveInput == inL > 0 /\ inW > 0 /\ inl > 0 /\ inw > 0

\* pack has the solution count, it has built the string, it has returned it
Counted == pc \in {"draw", "return", "done"} /\ returned # "NULL"
Built == pc \in {"return", "done"} /\ returned # "NULL"
Completed == pc = "done" /\ returned = "c_str"

\* max(floor(a/c) floor(b/d), floor(a/d) floor(b/c)) for positive arguments
HomogeneousBound(a, b, c, d) ==
  IF (a \div c) * (b \div d) >= (a \div d) * (b \div c)
  THEN (a \div c) * (b \div d)
  ELSE (a \div d) * (b \div c)

\* the Barnes bound of an a x b pallet for c x d boxes, positive arguments
Barnes(a, b, c, d) ==
  LET A1 == ((a % c) * (b % c))
      A2 == ((c - (a % c)) * (c - (b % c)))
      A == IF A1 <= A2 THEN A1 ELSE A2
      B1 == ((a % d) * (b % d))
      B2 == ((d - (a % d)) * (d - (b % d)))
      B == IF B1 <= B2 THEN B1 ELSE B2
      M == IF A >= B THEN A ELSE B
      wasteMin == (a * b) % (c * d)
      D == IF wasteMin >= M % (c * d)
           THEN (M \div (c * d)) * (c * d) + wasteMin
           ELSE ((M \div (c * d)) + 1) * (c * d) + wasteMin
  IN (a * b - D) \div (c * d)

\* two rows << x0, y0, x1, y1 >> have disjoint interiors
DisjointInteriors(a, b) ==
  a[3] <= b[1] \/ b[3] <= a[1] \/ a[4] <= b[2] \/ b[4] <= a[2]

\* the box of centre p (coordinates doubled) and extents ex along x, ey
\* along y lies within [0, a] x [0, b]
Within(p, ex, ey, a, b) ==
  /\ 0 <= p.x - ex /\ p.x + ex <= 2 * a
  /\ 0 <= p.y - ey /\ p.y + ey <= 2 * b

\* the box is too long for both sides of the pallet
DoesNotFit == (inl > inL /\ inl > inW) \/ (inw > inL /\ inw > inW)

\* no table has been built and nothing has been drawn
NothingBuilt ==
  /\ normalSetX = newSet /\ normalize = << >>
  /\ indexX = << >> /\ indexY = << >>
  /\ lowerBound = << >> /\ upperBound = << >> /\ solutionDepth = << >>
  /\ reachedLimit = << >> /\ cutPoints = << >>
  /\ bd = noFrame /\ ptoRet = << >> /\ result = << >>

\* X(L, l, w): the integers r*l + s*w <= L with r, s >= 0, for positive l, w
ConicSet(LL, ll, ww) ==
  { x \in { r * ll + s * ww : r \in 0..(LL \div ll), s \in 0..(LL \div ww) } :
      x <= LL }

\* max { s \in S | s <= x }, S holding 0 and x >= 0
GreatestUpTo(S, x) ==
  CHOOSE s \in S : s <= x /\ \A t \in S : t <= x => t <= s

\* initialize has built normalize and pack has not yet released it
Normalized == pc \in {"BD", "cuts", "draw", "return"}

\* normalize[x] = max { s \in S | s <= x } for every x in 0..L
NormalizeOver(S) == \A x \in 0..L : normalize[x] = GreatestUpTo(S, x)

(* ---- properties ---- *)

\* C1: once the string is built for a valid call, the number of rows the
\* reconstruction wrote equals the solution count solve_BD returned.
CountPlacementConsistency == Built => Len(ptoRet) = BD_solution

\* a valid call whose top-level rectangle is cut into blocks has been drawn
CountPlacementWitness ==
  /\ pc = "return" /\ BD_solution > 1 /\ Len(ptoRet) = BD_solution
  /\ cutPoints[indexX[L_n]][indexY[W_n]].homogeneous = 0

\* C2: any two distinct rectangles written by the reconstruction have
\* disjoint interiors.
NoOverlap ==
  Built => \A i \in 1..Len(ptoRet) : \A j \in 1..Len(ptoRet) :
             i < j => DisjointInteriors(ptoRet[i], ptoRet[j])

\* boxes of both orientations have been drawn from a stored cut
NoOverlapWitness ==
  /\ pc = "return" /\ l # w
  /\ cutPoints[indexX[L_n]][indexY[W_n]].homogeneous = 0
  /\ \E i \in 1..Len(ptoRet) : ptoRet[i][3] - ptoRet[i][1] = l
  /\ \E j \in 1..Len(ptoRet) : ptoRet[j][3] - ptoRet[j][1] = w

\* C3: every emitted placement, with extents l x w or w x l about its
\* centre, lies within [0, L] x [0, W] of the pallet as the caller gave it.
Containment ==
  Built => \A i \in 1..Len(result) :
             \/ Within(result[i], inl, inw, inL, inW)
             \/ Within(result[i], inw, inl, inL, inW)

\* C4: the count of a valid call is at most the Barnes bound of the pallet
\* as the caller gave it.
UpperBoundRespect ==
  (PositiveInput /\ Counted) => BD_solution <= Barnes(inL, inW, inl, inw)

\* a call has returned a count that meets the Barnes bound and exceeds the
\* homogeneous bound
UpperBoundWitness ==
  /\ Completed /\ BD_solution = Barnes(inL, inW, inl, inw)
  /\ BD_solution > HomogeneousBound(inL, inW, inl, inw)

\* C5: the count of a valid call is at least the homogeneous bound computed
\* on the caller's L and W, not on the normalized ones.
LowerBoundRespect ==
  (PositiveInput /\ Counted) =>
     BD_solution >= HomogeneousBound(inL, inW, inl, inw)

\* the width was normalized to a smaller value and the count is the
\* homogeneous bound of the caller's pallet
LowerBoundWitness ==
  /\ pc = "return" /\ W_n < W /\ BD_solution > 0
  /\ BD_solution = HomogeneousBound(inL, inW, inl, inw)

\* C6 as the code has it: pack(13, 7, 5, 3) yields the count 5 and 5
\* placements.
Scenario13x7 ==
  (inL = 13 /\ inW = 7 /\ inl = 5 /\ inw = 3 /\ Built) =>
     (BD_solution = 5 /\ Len(result) = 5 /\ Len(ptoRet) = 5)

\* pack(13, 7, 5, 3) has returned
Scenario13x7Witness ==
  inL = 13 /\ inW = 7 /\ inl = 5 /\ inw = 3 /\ Completed /\ BD_solution = 5

\* C6 as stated: pack(13, 7, 5, 3) yields the count 6 and 6 placements.
Scenario13x7Six ==
  (inL = 13 /\ inW = 7 /\ inl = 5 /\ inw = 3 /\ Built) =>
     (BD_solution = 6 /\ Len(result) = 6)

\* C7: pack(30, 20, 7, 3) yields 28, pack(57, 44, 12, 5) yields 41 and
\* pack(86, 82, 15, 11) yields 42.
ScenarioCounts ==
  /\ (inL = 30 /\ inW = 20 /\ inl = 7 /\ inw = 3 /\ Counted) => BD_solution = 28
  /\ (inL = 57 /\ inW = 44 /\ inl = 12 /\ inw = 5 /\ Counted) => BD_solution = 41
  /\ (inL = 86 /\ inW = 82 /\ inl = 15 /\ inw = 11 /\ Counted) => BD_solution = 42

\* C8: when an argument is <= 0, pack goes from its entry straight to its
\* return, returns NULL, emits nothing, and no table is built or changed.
InvalidDimensionsRejected ==
  (inL <= 0 \/ inW <= 0 \/ inl <= 0 \/ inw <= 0) =>
     /\ pc \in {"pack", "done"}
     /\ NothingBuilt
     /\ pc = "done" => returned = "NULL"

\* pack has returned NULL for a call whose only bad argument is w
InvalidDimensionsWitness ==
  /\ pc = "done" /\ returned = "NULL"
  /\ inL > 0 /\ inW > 0 /\ inl > 0 /\ inw <= 0

InfeasibleIsNotAnError ==
  (PositiveInput /\ HomogeneousBound(inL, inW, inl, inw) = 0) =>
     /\ bd.at \in {"none", "ret"}
     /\ returned # "NULL"
     /\ Counted => BD_solution = 0
     /\ Built => (result = << >> /\ ptoRet = << >>)
     /\ pc = "done" => returned = "c_str"

\* such a call has returned, for a box that is no longer than the pallet
\* and for a rectangle whose Barnes bound is not 0
InfeasibleWitness ==
  /\ PositiveInput /\ HomogeneousBound(inL, inW, inl, inw) = 0
  /\ ~DoesNotFit /\ Barnes(inL, inW, inl, inw) > 0
  /\ Completed /\ BD_solution = 0

\* the side of a row << x0, y0, x1, y1 >> of the reconstruction that lies
\* along the caller's L, and the one along the caller's W: the reconstruction
\* has its x along pack's local L, which is the caller's W when pack swapped
alongL(row) == IF swap THEN << row[2], row[4] >> ELSE << row[1], row[3] >>
alongW(row) == IF swap THEN << row[1], row[3] >> ELSE << row[2], row[4] >>

\* C11: the x emitted for a placement is the centre of its rectangle along
\* the caller's L side and the y emitted its centre along the caller's W
\* side (coordinates doubled), whether or not pack swapped L and W.
OutputFrame ==
  Built => \A i \in 1..Len(result) :
             i <= Len(ptoRet) =>
               /\ result[i].x = alongL(ptoRet[i])[1] + alongL(ptoRet[i])[2]
               /\ result[i].y = alongW(ptoRet[i])[1] + alongW(ptoRet[i])[2]

\* C12: every rectangle of the reconstruction is l x w or w x l along the
\* caller's (L, W) sides, and for l # w the rotated flag emitted for it is
\* true iff it is w x l.
Orientation ==
  Built => \A i \in 1..Len(result) :
             i <= Len(ptoRet) =>
               LET eL == alongL(ptoRet[i])[2] - alongL(ptoRet[i])[1]
                   eW == alongW(ptoRet[i])[2] - alongW(ptoRet[i])[1]
               IN /\ << eL, eW >> \in { << inl, inw >>, << inw, inl >> }
                  /\ inl # inw => (result[i].rotated <=> (eL = inw /\ eW = inl))

\* pack swapped L and W for a caller whose box has l < w, and boxes of both
\* orientations were emitted
OrientationWitness ==
  /\ pc = "return" /\ swap /\ inl < inw /\ Len(result) = Len(ptoRet)
  /\ \E i \in 1..Len(result) : result[i].rotated
  /\ \E j \in 1..Len(result) : ~result[j].rotated

\* C13: the count of a call of pack equals the count the caller had from
\* the call with the sides of the pallet exchanged, and from the call with
\* the sides of the box exchanged.
Symmetry == (Counted /\ previous # -1) => BD_solution = previous

\* a second call, for which pack swapped L and W and the box is not square,
\* has returned the count of the first, a count above the homogeneous bound
SymmetryWitness ==
  /\ Completed /\ previous # -1 /\ swap /\ inl # inw
  /\ BD_solution = previous
  /\ BD_solution > HomogeneousBound(inL, inW, inl, inw)

\* C14: within a call of pack the reconstruction is entered from the
\* L-solver, which itself follows BD: the step that takes pack to draw is a
\* step of the L-solver, run on tables of a memory type in 1..4.
PipelineOrder ==
  [][(pc # "draw" /\ pc' = "draw") =>
       (pc = "L-solver" /\ memory_type' \in 1..4)]_vars

\* C15: a second call of normalizePiece on the quadruple the first call left
\* leaves it as it is, a quadruple marked with q[0] = -1 included.
NormalizationIdempotent == [][pc = "once" => q' = q]_vars

\* normalizePiece has been called twice on a piece with i' > 0 and
\* 0 < j' < j that the first call discarded
NormalizationWitness ==
  /\ pc = "twice" /\ q[1] = -1
  /\ 0 < q[3] /\ 0 < q[4] /\ q[4] < q[2]

DivisionRoundTrip == pc = "read" => div = i_k

\* the memory types whose tables were asked for and obtained
Obtained == { attempts[k].type : k \in { n \in 1..Len(attempts) : attempts[n].ok } }

\* the greatest element of a non-empty set of integers
Greatest(S) == CHOOSE t \in S : \A u \in S : u <= t

\* the tables that getSolution and storeSolution use with memory type t are
\* allocated: the dense arrays for type 4, the arrays of maps otherwise
TablesOf(t) ==
  IF t = 4
  THEN solution = "allocated" /\ divisionPoint = "allocated"
  ELSE solutionMap = "allocated" /\ divisionPointMap = "allocated"

\* C19: when one of the requests for the memory types 4, 3, 2, 1 succeeds,
\* allocateMemory returns with memory_type the greatest type whose request
\* succeeded and with the tables of that type allocated.
AdaptiveMemoization ==
  (pc = "done" /\ Obtained \cap (1..4) # {}) =>
     /\ memory_type = Greatest(Obtained \cap (1..4))
     /\ TablesOf(memory_type)

\* allocateMemory has returned with type 2 after the second dense array
\* and the second array of maps of type 3 could not be had
AdaptiveMemoizationWitness ==
  /\ pc = "done" /\ memory_type = 2 /\ Obtained = {2}
  /\ solution = "deleted" /\ Len(attempts) = 3 /\ TablesOf(2)

\* C20: allocateMemory returns only with memory_type in 1..4 and the tables
\* of that type allocated; when the requests for the types 4, 3, 2 and 1
\* all fail it does not return.
AllocationFailureSurfaced ==
  pc = "done" => (memory_type \in 1..4 /\ TablesOf(memory_type))


\* C21: the outermost activation of BD runs at a depth below the cap N, so
\* that solve takes the branch of bd.cpp:191 in which a block whose
\* solutionDepth exceeds n is solved by BD at depth n + 1.
DepthBelowCap == pc = "cuts" => bd.n < N


\* the rectangles the matrices have a slot for, after solve_BD and before
\* pack releases the tables
Slots ==
  { s \in (0..(normalSetX.size - 1)) \X (0..(normalSetX.size - 1)) :
      s[1] \in DOMAIN lowerBound /\ s[2] \in DOMAIN lowerBound[s[1]] }

\* the sum of lowerBound over the non-empty blocks that the stored cut c
\* gives for the rectangle (LL, WW), each block with its longer side first
BlockSum(c, LL, WW, g) ==
  LET RECURSIVE sum(_)
      sum(k) ==
        IF k > 5 THEN 0
        ELSE IF g.L_[k] = 0 \/ g.W_[k] = 0 THEN sum(k + 1)
        ELSE lowerBound[indexX[Max2(g.L_[k], g.W_[k])]]
                       [indexY[Min2(g.L_[k], g.W_[k])]] + sum(k + 1)
  IN sum(1)

Realised(i, j) ==
  IF cutPoints[i][j].homogeneous = 1
  THEN lowerBound[i][j] = lowerBoundOf(At(normalSetX, i), At(normalSetX, j), l, w)
  ELSE /\ subproblemsIndexed(cutPoints[i][j], At(normalSetX, i), At(normalSetX, j))
       /\ \A k \in 1..5 :
            LET g == getSubproblems(cutPoints[i][j], At(normalSetX, i),
                                    At(normalSetX, j))
            IN (g.L_[k] # 0 /\ g.W_[k] # 0) =>
                 /\ hasX(Max2(g.L_[k], g.W_[k]))
                 /\ hasY(Min2(g.L_[k], g.W_[k]))
       /\ lowerBound[i][j] =
            BlockSum(cutPoints[i][j], At(normalSetX, i), At(normalSetX, j),
                     getSubproblems(cutPoints[i][j], At(normalSetX, i),
                                    At(normalSetX, j)))

\* C22: after solve_BD has returned, the lower bound of every rectangle is
\* the homogeneous estimate when its cut is marked homogeneous, and
\* otherwise the sum of the lower bounds of the non-empty blocks of the
\* stored cut.
CutPointsRealise ==
  pc \in {"draw", "return"} => \A s \in Slots : Realised(s[1], s[2])

\* solve_BD has returned with a first order non-guillotine cut stored for the
\* pallet, whose count is above the homogeneous estimate
CutPointsWitness ==
  /\ pc = "draw" /\ ~wild
  /\ \E s \in Slots :
       /\ cutPoints[s[1]][s[2]].homogeneous = 0
       /\ cutPoints[s[1]][s[2]].x1 # cutPoints[s[1]][s[2]].x2
       /\ cutPoints[s[1]][s[2]].y1 # cutPoints[s[1]][s[2]].y2
       /\ lowerBound[s[1]][s[2]] = BD_solution
       /\ BD_solution > lowerBoundOf(L, W, l, w)


\* solve_BD is running and the matrices solutionDepth and reachedLimit exist
Solving == pc \in {"BD", "cuts"}

\* the slot (i, j) is the one of the rectangle the running activation of BD
\* solves
BeingSolved(i, j) ==
  /\ pc = "cuts" /\ hasX(bd.L) /\ hasY(bd.W)
  /\ i = indexX[bd.L] /\ j = indexY[bd.W]

\* the lower bound the program holds for the slot (i, j): the local z_lb of
\* the activation of BD solving it, which its caller copies into
\* lowerBound[i][j] after BD has returned (bd.cpp:241 and 817), and
\* lowerBound[i][j] for every other slot
HeldLowerBound(i, j) ==
  IF BeingSolved(i, j) THEN bd.z_lb ELSE lowerBound[i][j]

\* a step writes -1 into solutionDepth[i][j] only together with
\* reachedLimit[i][j] = 0
SentinelClearsLimit ==
  (Solving /\ pc' = "cuts") =>
     \A s \in Slots :
        (solutionDepth[s[1]][s[2]] # -1 /\ solutionDepth'[s[1]][s[2]] = -1)
           => reachedLimit'[s[1]][s[2]] = 0

\* C23: while solve_BD runs, solutionDepth[i][j] = -1 only for a rectangle
\* whose held lower bound is 0 or equals its upper bound, and -1 is written
\* only together with reachedLimit[i][j] = 0.
SentinelProven ==
  /\ [](Solving =>
          \A s \in Slots :
             solutionDepth[s[1]][s[2]] = -1 =>
                \/ HeldLowerBound(s[1], s[2]) = upperBound[s[1]][s[2]]
                \/ HeldLowerBound(s[1], s[2]) = 0)
  /\ [][SentinelClearsLimit]_vars

\* BD has marked the pallet solved by a cut that meets the upper bound, and
\* solve_BD has not yet written the count into lowerBound
SentinelWitness ==
  /\ pc = "cuts" /\ bd.at = "ret" /\ hasX(bd.L) /\ hasY(bd.W)
  /\ solutionDepth[indexX[bd.L]][indexY[bd.W]] = -1
  /\ reachedLimit[indexX[bd.L]][indexY[bd.W]] = 0
  /\ bd.z_lb = upperBound[indexX[bd.L]][indexY[bd.W]]
  /\ lowerBound[indexX[bd.L]][indexY[bd.W]] < bd.z_lb
  /\ lowerBound[indexX[bd.L]][indexY[bd.W]] > 0

\* C23 as stated: the same with lowerBound[i][j] itself in every state
SentinelOnTable ==
  /\ [](Solving =>
          \A s \in Slots :
             solutionDepth[s[1]][s[2]] = -1 =>
                \/ lowerBound[s[1]][s[2]] = upperBound[s[1]][s[2]]
                \/ lowerBound[s[1]][s[2]] = 0)
  /\ [][SentinelClearsLimit]_vars


\* C24: an L-piece and the same piece with its axes exchanged are both
\* discarded by normalizePiece, or both come out as the same quadruple
\* (i, j, i', j'), which has i >= j, i' >= j' when i = j, and i = i' exactly
\* when j = j'.
CanonicalForm ==
  pc = "normalized" =>
     \/ q1[1] = -1 /\ q2[1] = -1
     \/ /\ q1[1] # -1 /\ q2[1] # -1
        /\ q1 = q2
        /\ q1[1] >= q1[2]
        /\ (q1[1] = q1[2] => q1[3] >= q1[4])
        /\ (q1[1] = q1[3]) = (q1[2] = q1[4])

\* both pieces came out as the same proper L with i = j and i' > j', which
\* one of them was not before
CanonicalWitness ==
  /\ pc = "normalized" /\ q1 = q2 /\ q1[1] = q1[2]
  /\ 0 < q1[4] /\ q1[4] < q1[3] /\ q1[3] < q1[1]


\* the pair (q1, q2) of the table of formulas for the subdivision Bk of
\* q = (i, j, i', j') at (x', y') and x'' (B6) or y'' (B7), every
\* subtraction passed through norm
FormulaTable(k, norm, i, j, i1, j1, x, y, z) ==
  CASE k = 1 -> << << i1, norm[j - y], x, norm[j - j1] >>,
                   << i, j1, norm[i - x], y >> >>
    [] k = 2 -> << << i1, norm[j - j1], norm[i1 - x], norm[j - y] >>,
                   << i, y, x, j1 >> >>
    [] k = 3 -> << << i, j, x, y >>,
                   << norm[i - x], norm[j - y], norm[i1 - x], norm[j1 - y] >> >>
    [] k = 4 -> << << x, j, i1, y >>,
                   << norm[i - i1], j1, norm[i - x], norm[j1 - y] >> >>
    [] k = 5 -> << << i1, j, x, norm[j - y] >>,
                   << norm[i - x], j1, norm[i - i1], y >> >>
    [] k = 6 -> << << z, j, x, norm[j - y] >>,
                   << norm[i - x], j, norm[i - z], y >> >>
    [] k = 7 -> << << i, norm[j - y], x, norm[j - z] >>,
                   << i, z, norm[i - x], y >> >>
    [] k = 8 -> << << i1, j, x, norm[j - y] >>,
                   << norm[i - x], y, norm[i1 - x], j1 >> >>
    [] k = 9 -> << << x, norm[j - y], i1, norm[j1 - y] >>,
                   << i, j1, norm[i - x], y >> >>

\* C25: standardPositionBk leaves in (q1, q2) the pair that the table of
\* formulas gives for Bk, q and the cut coordinates.
SubdivisionOperators ==
  pc = "divided" =>
     << q1, q2 >> = FormulaTable(Bk, normalize, q[1], q[2], q[3], q[4],
                                 i_k[1], i_k[2], i_k[3])

\* B8 has been applied to a proper L with a subtraction that normalize
\* lowers
SubdivisionWitness ==
  /\ pc = "divided" /\ Bk = 8
  /\ 0 < q[3] /\ q[3] < q[1] /\ 0 < q[4] /\ q[4] < q[2]
  /\ q2[3] < q[3] - i_k[1]


\* C28: after initialize, for every pair (x, y) of values the bound tables
\* are indexed by, 0 <= lowerBound <= upperBound <= floor (x * y / (l * w)).
BoundOrdering ==
  pc = "BD" =>
     \A s \in Slots :
        /\ 0 <= lowerBound[s[1]][s[2]]
        /\ lowerBound[s[1]][s[2]] <= upperBound[s[1]][s[2]]
        /\ upperBound[s[1]][s[2]] <=
             (At(normalSetX, s[1]) * At(normalSetX, s[2])) \div (l * w)

\* initialize has left a rectangle whose three bounds differ, the lower one
\* being positive
BoundOrderingWitness ==
  /\ pc = "BD"
  /\ \E s \in Slots :
        /\ 0 < lowerBound[s[1]][s[2]]
        /\ lowerBound[s[1]][s[2]] < upperBound[s[1]][s[2]]
        /\ upperBound[s[1]][s[2]] <
             (At(normalSetX, s[1]) * At(normalSetX, s[2])) \div (l * w)


\* the candidate cut that BD is about to hand to solve: << numBlocks, L_, W_ >>
Candidate ==
  CASE bd.at = "ng" ->
         << 5,
            << At(bd.rasterX, bd.ix.index_x1),
               bd.L - At(bd.rasterX, bd.ix.index_x1),
               At(bd.rasterX, bd.ix.index_x2) - At(bd.rasterX, bd.ix.index_x1),
               At(bd.rasterX, bd.ix.index_x2),
               bd.L - At(bd.rasterX, bd.ix.index_x2) >>,
            << bd.W - At(bd.rasterY, bd.ix.index_y1),
               bd.W - At(bd.rasterY, bd.ix.index_y2),
               At(bd.rasterY, bd.ix.index_y2) - At(bd.rasterY, bd.ix.index_y1),
               At(bd.rasterY, bd.ix.index_y1),
               At(bd.rasterY, bd.ix.index_y2) >> >>
    [] bd.at = "vert" ->
         << 2,
            << At(bd.rasterX, bd.ix.index_x1),
               bd.L - At(bd.rasterX, bd.ix.index_x1) >>,
            << bd.W, bd.W >> >>
    [] bd.at = "horiz" ->
         << 2,
            << bd.L, bd.L >>,
            << bd.W - At(bd.rasterY, bd.ix.index_y1),
               At(bd.rasterY, bd.ix.index_y1) >> >>

\* C29: every side that BD, solve and the reconstruction look up in indexX
\* and indexY is a point initialize gave an entry, the shorter side of each
\* block being at most W_n: the rectangle BD is entered with, each block of
\* each candidate cut, and each rectangle drawBD comes to.
IndexDomainSafety ==
  /\ ~wild
  /\ (pc = "cuts" /\ bd.at \in {"ng", "vert", "horiz"}) =>
        /\ hasX(bd.L) /\ hasY(bd.W)
        /\ \A i \in 1..Candidate[1] :
              /\ hasX(blockL(Candidate[2], Candidate[3], i))
              /\ hasY(blockW(Candidate[2], Candidate[3], i))
              /\ blockW(Candidate[2], Candidate[3], i) <= W_n

\* a first order non-guillotine cut whose middle block is lowered by
\* normalize has been tried, stored and drawn
IndexDomainWitness ==
  /\ pc = "return" /\ ~wild /\ Len(ptoRet) = BD_solution
  /\ hasX(L_n) /\ hasY(W_n)
  /\ cutPoints[indexX[L_n]][indexY[W_n]].homogeneous = 0
  /\ cutPoints[indexX[L_n]][indexY[W_n]].x1
       < cutPoints[indexX[L_n]][indexY[W_n]].x2
  /\ normalize[cutPoints[indexX[L_n]][indexY[W_n]].x2
               - cutPoints[indexX[L_n]][indexY[W_n]].x1]
       < cutPoints[indexX[L_n]][indexY[W_n]].x2
         - cutPoints[indexX[L_n]][indexY[W_n]].x1


\* the pieces solve has been called on: the pallet and every piece passed
\* by divideL, divideB6 and divideB7
Reached == {q} \cup { c[2] : c \in calls }

\* C26: every call solve (L1, q1) or solve (L2, q2) made by divideL, divideB6
\* or divideB7 while the piece q is being solved is on a piece of strictly
\* smaller area than q, and every block of every cut BD tries, the
\* rectangles solve would hand to BD, has a strictly smaller area than the
\* rectangle BD was entered with.
WellFoundedRecursion ==
  /\ \A c \in calls : areaOf(c[2]) < areaOf(c[1])
  /\ (pc = "cuts" /\ bd.at \in {"ng", "vert", "horiz"}) =>
        \A i \in 1..Candidate[1] :
           blockL(Candidate[2], Candidate[3], i)
             * blockW(Candidate[2], Candidate[3], i) < bd.L * bd.W

\* solve has returned for a pallet after calls three deep, one of them on a
\* non-degenerated L
WellFoundedWitness ==
  /\ pc = "solved" /\ ~wild
  /\ \E c \in calls, d \in calls :
        /\ c[1] = q /\ d[1] = c[2]
        /\ \E e \in calls : e[2][1] # e[2][3]

\* C27: once solve has returned for the pallet q, drawR (LIndex (q), q)
\* writes exactly (record & nRet) rows, whatever the memory type.
ReconstructionCount ==
  (pc = "drawn" /\ ~wild) => ret = memo[slotOf(q)].n

\* C30: for each memory type the pair (LIndex, getKey) is different for any
\* two different pieces among those solve has been called on for a pallet.
MemoSlotInjective ==
  pc \in {"solved", "drawn"} =>
    \A a \in Reached, b \in Reached :
       a # b =>
         \A t \in 1..4 :
            << LIndex(a, t), getKey(a, t) >> # << LIndex(b, t), getKey(b, t) >>

\* solve has returned after being called on a rectangle and on a
\* non-degenerated L of the same length and width, with the maps of type 3
MemoSlotWitness ==
  /\ pc = "solved" /\ ~wild /\ memory_type = 3
  /\ \E a \in Reached, b \in Reached :
        /\ a[1] = b[1] /\ a[2] = b[2]
        /\ a[1] = a[3] /\ b[1] # b[3]

=============================================================================
